---- MODULE Spec2Model ----
(***************************************************************************)
(* A model of the conversation orchestration engine of ai-council:         *)
(*   - runConversation and its helpers (council.ts),                       *)
(*   - getModeratorDecision (ollamaClient.ts),                             *)
(*   - the outcome of the chat transport (ollamaClient.ts).                *)
(*                                                                         *)
(* Texts are sequences of atoms.  An atom is a one-character string, or a  *)
(* longer literal standing for a stretch of text no rule looks into (the   *)
(* fixed part of an error message, for example).                           *)
(***************************************************************************)
EXTENDS Integers, Sequences, FiniteSets, TLC

\* ------------------------------------------------------------------------
\* Bounds of the model
\* ------------------------------------------------------------------------

\* The largest number of debaters of a panel.
MaxDebaters == 2

\* The largest number of debater calls that fail in one run.
MaxDebaterFailures == 1

\* maxTurns options below the hard cap range over 0..MaxSmallTurns.
MaxSmallTurns == 3

\* The longest script of replies a stubbed backend gives the moderator.
MaxScript == 3

\* The most pieces a text given to the sanitizer is made of.
MaxPieces == 3

\* Most fragments a persona's text is streamed in.
MaxFragments == 3

\* The largest number of debaters of a panel whose prompts are built.
MaxPromptDebaters == 3

\* The longest transcript a prompt is built from.
MaxEntries == 4

\* The largest number of lines of a streamed response body.
MaxStreamLines == 3

\* ------------------------------------------------------------------------
\* Program constants
\* ------------------------------------------------------------------------

DEFAULT_MAX_TURNS == 12

MAX_DEBATER_TURNS == 8

\* `lastSpeaker: string | null = null`
NULL == "<null>"

\* ------------------------------------------------------------------------
\* Texts
\* ------------------------------------------------------------------------

Whitespace == {" ", "\n", "\t"}

RECURSIVE TrimStart(_)
\* String.prototype.trimStart
TrimStart(t) ==
    IF t # <<>> /\ Head(t) \in Whitespace THEN TrimStart(Tail(t)) ELSE t

RECURSIVE TrimEnd(_)
\* String.prototype.trimEnd
TrimEnd(t) ==
    IF t # <<>> /\ t[Len(t)] \in Whitespace
    THEN TrimEnd(SubSeq(t, 1, Len(t) - 1))
    ELSE t

\* String.prototype.trim
Trim(t) == TrimEnd(TrimStart(t))

\* String.prototype.startsWith
StartsWith(t, prefix) ==
    /\ Len(t) >= Len(prefix)
    /\ SubSeq(t, 1, Len(prefix)) = prefix

\* The literal "[ERROR]" tested by runSingleTurnForAgent.
ERROR_TAG == <<"[", "E", "R", "R", "O", "R", "]">>

Range(s) == {s[i] : i \in 1..Len(s)}

\* `const v = ...; F(v)`: one statement of a chain of transforms, with its
\* input evaluated before the next statement runs.
Pipe(v, F(_)) == CHOOSE out \in {F(x) : x \in {v}} : TRUE

\* ------------------------------------------------------------------------
\* Regular expressions, as JavaScript's backtracking matcher runs them.
\* A pattern is a tree; Ends lists, in the order the matcher tries them, the
\* positions at which a match starting at position i can end.  The first one
\* is the match String.prototype.replace uses.
\* ------------------------------------------------------------------------

LowerCase == <<"a", "b", "c", "d", "e", "f", "g", "h", "i", "j", "k", "l", "m",
               "n", "o", "p", "q", "r", "s", "t", "u", "v", "w", "x", "y", "z">>

UpperCase == <<"A", "B", "C", "D", "E", "F", "G", "H", "I", "J", "K", "L", "M",
               "N", "O", "P", "Q", "R", "S", "T", "U", "V", "W", "X", "Y", "Z">>

Letters == Range(LowerCase) \cup Range(UpperCase)

Digits == {"0", "1", "2", "3", "4", "5", "6", "7", "8", "9"}

\* \w
WordChars == Letters \cup Digits \cup {"_"}

\* Case folding of the i flag.
FoldTable ==
    [c \in Range(UpperCase) |->
        LowerCase[CHOOSE k \in 1..Len(UpperCase) : UpperCase[k] = c]]

Fold(c) == IF c \in DOMAIN FoldTable THEN FoldTable[c] ELSE c

\* Pattern constructors.
\* In and NotIn are character classes; under the i flag the class and the
\* character are case-folded before they are compared.
Eps == [k |-> "eps"]
In(set) == [k |-> "in", s |-> {Fold(x) : x \in set}]
NotIn(set) == [k |-> "notin", s |-> {Fold(x) : x \in set}]
Then(a, b) == [k |-> "seq", a |-> a, b |-> b]
Or(a, b) == [k |-> "alt", a |-> a, b |-> b]
Star(a) == [k |-> "star", a |-> a]
Plus(a) == Then(a, Star(a))
Opt(a) == Or(a, Eps)
Bol == [k |-> "bol"]
Eol == [k |-> "eol"]
WordBoundary == [k |-> "wb"]
Ahead(a) == [k |-> "ahead", a |-> a]
NotAhead(a) == [k |-> "notahead", a |-> a]
NotBehindWord == [k |-> "notbehindword"]

RECURSIVE Cat(_)
\* The concatenation of a sequence of patterns.
Cat(ps) == IF ps = <<>> THEN Eps ELSE Then(Head(ps), Cat(Tail(ps)))

RECURSIVE Lit(_)
\* A literal text.
Lit(t) == IF t = <<>> THEN Eps ELSE Then(In({Head(t)}), Lit(Tail(t)))

RECURSIVE AnyOf(_)
\* An alternation a|b|c, tried left to right.
AnyOf(ps) == IF Len(ps) = 1 THEN Head(ps) ELSE Or(Head(ps), AnyOf(Tail(ps)))

Ws == In(Whitespace)

\* Whether the atom c is in the folded class `set`, under the i flag or not.
\* (The patterns without the i flag have no letters in their classes.)
InClass(c, set, ci) == IF ci THEN Fold(c) \in set ELSE c \in set

IsWordAt(t, i) == i >= 1 /\ i <= Len(t) /\ t[i] \in WordChars

RECURSIVE Ends(_, _, _, _), EndsFrom(_, _, _, _), StarEnds(_, _, _, _)
Ends(r, t, i, ci) ==
    CASE r.k = "eps" -> <<i>>
      [] r.k = "in" ->
            IF i <= Len(t) /\ InClass(t[i], r.s, ci) THEN <<i + 1>> ELSE <<>>
      [] r.k = "notin" ->
            IF i <= Len(t) /\ ~InClass(t[i], r.s, ci) THEN <<i + 1>> ELSE <<>>
      [] r.k = "seq" -> EndsFrom(r.b, t, Ends(r.a, t, i, ci), ci)
      [] r.k = "alt" -> Ends(r.a, t, i, ci) \o Ends(r.b, t, i, ci)
      [] r.k = "star" ->
            StarEnds(r, t, SelectSeq(Ends(r.a, t, i, ci), LAMBDA e : e > i), ci)
                \o <<i>>
      [] r.k = "bol" -> IF i = 1 THEN <<i>> ELSE <<>>
      [] r.k = "eol" -> IF i = Len(t) + 1 THEN <<i>> ELSE <<>>
      [] r.k = "wb" ->
            IF IsWordAt(t, i - 1) # IsWordAt(t, i) THEN <<i>> ELSE <<>>
      [] r.k = "ahead" -> IF Ends(r.a, t, i, ci) # <<>> THEN <<i>> ELSE <<>>
      [] r.k = "notahead" -> IF Ends(r.a, t, i, ci) = <<>> THEN <<i>> ELSE <<>>
      [] r.k = "notbehindword" -> IF IsWordAt(t, i - 1) THEN <<>> ELSE <<i>>

\* The ends of r started at each of the positions `starts`, in order.
EndsFrom(r, t, starts, ci) ==
    IF starts = <<>> THEN <<>>
    ELSE Ends(r, t, Head(starts), ci) \o EndsFrom(r, t, Tail(starts), ci)

\* One more greedy iteration of the star r from each of `starts`.
StarEnds(r, t, starts, ci) ==
    IF starts = <<>> THEN <<>>
    ELSE Ends(r, t, Head(starts), ci) \o StarEnds(r, t, Tail(starts), ci)

\* The first of the ends `es`, or 0 when there is none.
FirstEnd(es) == IF es = <<>> THEN 0 ELSE Head(es)

\* The end of the match of r at position i (exclusive), or 0 when there is none.
MatchEnd(r, t, i, ci) == FirstEnd(Ends(r, t, i, ci))

\* The positions at or after i where r matches.
MatchStarts(r, t, i, ci) == {j \in i..(Len(t) + 1) : MatchEnd(r, t, j, ci) # 0}

\* The match of r at the least of the positions `starts`, or <<>>.
LeftmostMatch(r, t, ci, starts) ==
    IF starts = {} THEN <<>>
    ELSE <<CHOOSE j \in starts : \A k \in starts : j <= k,
           MatchEnd(r, t, CHOOSE j \in starts : \A k \in starts : j <= k, ci)>>

\* The leftmost match <<start, end>> of r at or after position i, or <<>>.
FirstMatchFrom(r, t, i, ci) == LeftmostMatch(r, t, ci, MatchStarts(r, t, i, ci))

\* lastIndex after the match m: an empty match advances by one.
NextIndex(m) == IF m[2] = m[1] THEN m[2] + 1 ELSE m[2]

RECURSIVE AllMatchesFrom(_, _, _, _), MatchesAfter(_, _, _, _)
\* The matches a g-flagged replace visits, left to right.
AllMatchesFrom(r, t, i, ci) == MatchesAfter(r, t, ci, FirstMatchFrom(r, t, i, ci))

\* The match m and the matches after it.
MatchesAfter(r, t, ci, m) ==
    IF m = <<>> THEN <<>>
    ELSE <<m>> \o AllMatchesFrom(r, t, NextIndex(m), ci)

RECURSIVE Splice(_, _, _, _)
\* t from position i on, with the spans ms replaced by the texts reps.
Splice(t, i, ms, reps) ==
    IF ms = <<>> THEN SubSeq(t, i, Len(t))
    ELSE SubSeq(t, i, Head(ms)[1] - 1) \o Head(reps)
            \o Splice(t, Head(ms)[2], Tail(ms), Tail(reps))

\* t with the span m, when there is one, replaced by rep.
ReplaceSpan(t, m, rep) == IF m = <<>> THEN t ELSE Splice(t, 1, <<m>>, <<rep>>)

\* t with each of the spans ms replaced by rep.
ReplaceSpans(t, ms, rep) == Splice(t, 1, ms, [j \in 1..Len(ms) |-> rep])

\* text.replace(/r/, "")
RemoveFirst(r, t, ci) == ReplaceSpan(t, FirstMatchFrom(r, t, 1, ci), <<>>)

\* text.replace(/r/, rep)
ReplaceFirstWith(r, t, ci, rep) == ReplaceSpan(t, FirstMatchFrom(r, t, 1, ci), rep)

\* text.replace(/r/g, rep)
ReplaceAllWith(r, t, ci, rep) == ReplaceSpans(t, AllMatchesFrom(r, t, 1, ci), rep)

\* ------------------------------------------------------------------------
\* The output sanitizer (council.ts)
\* ------------------------------------------------------------------------

\* /^\s*Me\s*[:,\-]\s*/i
RE_LeadingMePunct ==
    Cat(<<Bol, Star(Ws), Lit(<<"m", "e">>), Star(Ws), In({":", ",", "-"}), Star(Ws)>>)

\* /^\s*Me\s+(?=[A-Za-z])/i
RE_LeadingMeWord ==
    Cat(<<Bol, Star(Ws), Lit(<<"m", "e">>), Plus(Ws), Ahead(In(Letters))>>)

\* /^\s*Me,\s*I\s+think\b/i
RE_MeIThink ==
    Cat(<<Bol, Star(Ws), Lit(<<"m", "e", ",">>), Star(Ws), Lit(<<"i">>), Plus(Ws),
          Lit(<<"t", "h", "i", "n", "k">>), WordBoundary>>)

\* /^\s*me\s+would\s+like\b/i
RE_MeWouldLike ==
    Cat(<<Bol, Star(Ws), Lit(<<"m", "e">>), Plus(Ws), Lit(<<"w", "o", "u", "l", "d">>), Plus(Ws),
          Lit(<<"l", "i", "k", "e">>), WordBoundary>>)

\* /([,;])?\s*\bme\s*:\s*/gi
RE_InlineMe ==
    Cat(<<Opt(In({",", ";"})), Star(Ws), WordBoundary, Lit(<<"m", "e">>), Star(Ws),
          In({":"}), Star(Ws)>>)

\* The verbs of the "Me<verb>" rule.
MeVerbs ==
    AnyOf(<<Lit(<<"a", "g", "r", "e", "e">>),
           Lit(<<"a", "c", "k", "n", "o", "w", "l", "e", "d", "g", "e">>),
           Lit(<<"a", "p", "p", "r", "e", "c", "i", "a", "t", "e">>),
           Lit(<<"b", "e", "l", "i", "e", "v", "e">>),
           Lit(<<"t", "h", "i", "n", "k">>),
           Lit(<<"w", "a", "n", "t">>),
           Lit(<<"w", "o", "u", "l", "d">>),
           Lit(<<"c", "o", "u", "l", "d">>),
           Lit(<<"s", "h", "o", "u", "l", "d">>),
           Lit(<<"c", "a", "n">>),
           Lit(<<"n", "e", "e", "d">>),
           Lit(<<"a", "c", "c", "e", "p", "t">>),
           Lit(<<"u", "n", "d", "e", "r", "s", "t", "a", "n", "d">>),
           Lit(<<"s", "u", "p", "p", "o", "r", "t">>),
           Lit(<<"u", "r", "g", "e">>)>>)

\* /^(\s*)Me(?=(agree|acknowledge|...|urge)\b)/i
RE_MeVerb ==
    Cat(<<Bol, Star(Ws), Lit(<<"m", "e">>), Ahead(Then(MeVerbs, WordBoundary))>>)

\* /^\s*\[([^\]]+)\]\s*/i
RE_SpeakerTag ==
    Cat(<<Bol, Star(Ws), In({"["}), Plus(NotIn({"]"})), In({"]"}), Star(Ws)>>)

\* /\s*\[\d+\](?=[\s,.;:!?)]|$)/g
RE_Citation ==
    Cat(<<Star(Ws), In({"["}), Plus(In(Digits)), In({"]"}),
          Or(Ahead(In(Whitespace \cup {",", ".", ";", ":", "!", "?", ")"})), Eol)>>)

\* /\n+References:\s*[\s\S]*$/i
RE_References ==
    Cat(<<Plus(In({"\n"})), Lit(<<"r", "e", "f", "e", "r", "e", "n", "c", "e", "s", ":">>), Star(Ws), Star(NotIn({})), Eol>>)

\* The callback of the inline "me:" rule: the captured punctuation and a
\* space, or a newline when the match spans one, or a space.
InlineMeReplacement(match) ==
    IF match[1] \in {",", ";"} THEN <<match[1], " ">>
    ELSE IF "\n" \in Range(match) THEN <<"\n">>
    ELSE <<" ">>

\* t with each span of ms replaced by what the callback gives for it.
SpliceInlineMe(t, ms) ==
    Splice(t, 1, ms,
           [j \in 1..Len(ms) |->
               InlineMeReplacement(SubSeq(t, ms[j][1], ms[j][2] - 1))])

ReplaceInlineMe(t) == SpliceInlineMe(t, AllMatchesFrom(RE_InlineMe, t, 1, TRUE))

\* The callback of the "Me<verb>" rule, `${leading}I `, applied to the match m.
SpliceMeVerb(t, m) ==
    IF m = <<>> THEN t
    ELSE Splice(t, 1, <<m>>, <<SubSeq(t, m[1], m[2] - 3) \o <<"I", " ">> >>)

ReplaceMeVerb(t) == SpliceMeVerb(t, FirstMatchFrom(RE_MeVerb, t, 1, TRUE))

\* The replacement texts "I think" and "I would like".
I_THINK == <<"I", " ", "t", "h", "i", "n", "k">>

I_WOULD_LIKE == <<"I", " ", "w", "o", "u", "l", "d", " ", "l", "i", "k", "e">>

cleanSpeakerOutput(text) ==
    Pipe(Pipe(Pipe(Pipe(Pipe(Pipe(Pipe(Pipe(Pipe(Pipe(text,
        LAMBDA t : RemoveFirst(RE_LeadingMePunct, t, TRUE)),
        LAMBDA t : RemoveFirst(RE_LeadingMeWord, t, TRUE)),
        LAMBDA t : ReplaceFirstWith(RE_MeIThink, t, TRUE, I_THINK)),
        LAMBDA t : ReplaceFirstWith(RE_MeWouldLike, t, TRUE, I_WOULD_LIKE)),
        LAMBDA t : ReplaceInlineMe(t)),
        LAMBDA t : ReplaceMeVerb(t)),
        LAMBDA t : RemoveFirst(RE_SpeakerTag, t, TRUE)),
        LAMBDA t : ReplaceAllWith(RE_Citation, t, FALSE, <<>>)),
        LAMBDA t : RemoveFirst(RE_References, t, TRUE)),
        LAMBDA t : TrimStart(t))

stripSpeakerArtifacts(text) == RemoveFirst(RE_SpeakerTag, text, TRUE)

\* escapeRegExp makes the name a literal of the pattern.
\* new RegExp(`^\\s*${escaped}\\s*[:\\-]\\s*`, "i")
RE_LeadingName(nameChars) ==
    Cat(<<Bol, Star(Ws), Lit(nameChars), Star(Ws), In({":", "-"}), Star(Ws)>>)

\* new RegExp(`(?<!\\w)${escaped}'?s(?!\\w)`, "gi")
RE_Possessive(nameChars) ==
    Cat(<<NotBehindWord, Lit(nameChars), Opt(In({"'"})), In({"s"}),
          NotAhead(In(WordChars))>>)

\* new RegExp(`(?<!\\w)${escaped}(?!\\w)`, "gi")
RE_Standalone(nameChars) ==
    Cat(<<NotBehindWord, Lit(nameChars), NotAhead(In(WordChars))>>)

normalizeSelfReference(nameChars, text) ==
    Pipe(Pipe(Pipe(text,
        LAMBDA t : RemoveFirst(RE_LeadingName(nameChars), t, TRUE)),
        LAMBDA t : ReplaceAllWith(RE_Possessive(nameChars), t, TRUE, <<"m", "y">>)),
        LAMBDA t : ReplaceAllWith(RE_Standalone(nameChars), t, TRUE, <<"I">>))

\* I(?:'d| would)
RE_IWould == Then(Lit(<<"i">>), Or(Lit(<<"'", "d">>), Lit(<<" ", "w", "o", "u", "l", "d">>)))

\* [^.]*\.\s*
RE_RestOfSentence == Cat(<<Star(NotIn({"."})), In({"."}), Star(Ws)>>)

\* /^I(?:'d| would)\s+like to\s+(?:respond|add|build)[^.]*\.\s*/i
RE_LikeToRespond ==
    Cat(<<Bol, RE_IWould, Plus(Ws), Lit(<<"l", "i", "k", "e", " ", "t", "o">>), Plus(Ws),
          AnyOf(<<Lit(<<"r", "e", "s", "p", "o", "n", "d">>), Lit(<<"a", "d", "d">>), Lit(<<"b", "u", "i", "l", "d">>)>>),
          RE_RestOfSentence>>)

\* /^I'm\s+glad\s+[A-Za-z]+(?:'s| has)?\s+(?:mentioned|raised)[^.]*\.\s*/i
RE_GladMentioned ==
    Cat(<<Bol, Lit(<<"i", "'", "m">>), Plus(Ws), Lit(<<"g", "l", "a", "d">>), Plus(Ws), Plus(In(Letters)),
          Opt(Or(Lit(<<"'", "s">>), Lit(<<" ", "h", "a", "s">>))), Plus(Ws),
          Or(Lit(<<"m", "e", "n", "t", "i", "o", "n", "e", "d">>), Lit(<<"r", "a", "i", "s", "e", "d">>)), RE_RestOfSentence>>)

\* /^I(?:'d| would)\s+like to\s+respond to\s+[A-Za-z]+['’]s\s+(?:point|proposal|idea)[^.]*\.\s*/i
\* (the atom "U+2019" stands for the right single quotation mark)
RE_RespondToPoint ==
    Cat(<<Bol, RE_IWould, Plus(Ws), Lit(<<"l", "i", "k", "e", " ", "t", "o">>), Plus(Ws),
          Lit(<<"r", "e", "s", "p", "o", "n", "d", " ", "t", "o">>), Plus(Ws), Plus(In(Letters)),
          In({"'", "U+2019"}), In({"s"}), Plus(Ws),
          AnyOf(<<Lit(<<"p", "o", "i", "n", "t">>), Lit(<<"p", "r", "o", "p", "o", "s", "a", "l">>), Lit(<<"i", "d", "e", "a">>)>>),
          RE_RestOfSentence>>)

stripClichedLeadIn(text) ==
    Pipe(Pipe(Pipe(text,
        LAMBDA t : RemoveFirst(RE_LikeToRespond, t, TRUE)),
        LAMBDA t : RemoveFirst(RE_GladMentioned, t, TRUE)),
        LAMBDA t : RemoveFirst(RE_RespondToPoint, t, TRUE))

\* The last lines of formatAgentOutput: the trimmed result, or the least
\* processed intermediate text that is not empty.
formatFallback(trimmed, artifactFree, cleaned) ==
    IF Len(trimmed) > 0 THEN trimmed
    ELSE IF Len(Trim(artifactFree)) > 0 THEN Trim(artifactFree)
    ELSE Trim(cleaned)

formatAgentOutput(nameChars, text) ==
    Pipe(cleanSpeakerOutput(text), LAMBDA cleaned :
      Pipe(stripSpeakerArtifacts(cleaned), LAMBDA artifactFree :
        Pipe(normalizeSelfReference(nameChars, artifactFree), LAMBDA normalized :
          Pipe(stripClichedLeadIn(normalized), LAMBDA stripped :
            Pipe(TrimStart(stripped), LAMBDA trimmed :
              formatFallback(trimmed, artifactFree, cleaned))))))

\* ------------------------------------------------------------------------
\* Personas and panels (personas.ts, panels.ts: given to the run)
\* ------------------------------------------------------------------------

\* The debaters a panel is drawn from, in roster order.
DebaterPool == <<"Analyst", "Optimist", "Critic", "Skeptic">>

JudgeName == "Judge"

ModeratorName == "Moderator"

\* The characters of a persona name.
NameChars(name) ==
    CASE name = "Analyst" -> <<"A", "n", "a", "l", "y", "s", "t">>
      [] name = "Optimist" -> <<"O", "p", "t", "i", "m", "i", "s", "t">>
      [] name = "Critic" -> <<"C", "r", "i", "t", "i", "c">>
      [] name = "Skeptic" -> <<"S", "k", "e", "p", "t", "i", "c">>
      [] name = "Judge" -> <<"J", "u", "d", "g", "e">>
      [] name = "Moderator" -> <<"M", "o", "d", "e", "r", "a", "t", "o", "r">>

\* ActivePanel: an ordered list of debaters with distinct names, one judge
\* and one moderator.
Panels ==
    {[debaters |-> SubSeq(DebaterPool, 1, n), judge |-> JudgeName,
      moderator |-> ModeratorName] : n \in 0..MaxDebaters}

\* ------------------------------------------------------------------------
\* Errors and the buffered transport call (ollamaClient.ts)
\* ------------------------------------------------------------------------

Err(name, message) == [name |-> name, message |-> message]

NoError == Err("", <<>>)

Returned(v) == [ok |-> TRUE, value |-> v, error |-> NoError]

Thrown(e) == [ok |-> FALSE, value |-> <<>>, error |-> e]

\* getTimeoutMs(): OLLAMA_TIMEOUT_MS, 120000 by default, as printed.
TimeoutMsText == "120000"

\* What the backend does with a buffered request.  `content` is the text of
\* data.message.content: absent, or a document that is blank or not.
BufferedReplies(docs) ==
    {[kind |-> k, hasError |-> FALSE, hasContent |-> FALSE, content |-> <<>>] :
        k \in {"nofetch", "network", "abort", "status", "badjson"}}
    \cup {[kind |-> "body", hasError |-> TRUE, hasContent |-> FALSE, content |-> <<>>]}
    \cup {[kind |-> "body", hasError |-> FALSE, hasContent |-> FALSE, content |-> <<>>]}
    \cup {[kind |-> "body", hasError |-> FALSE, hasContent |-> TRUE, content |-> d] :
            d \in docs}

\* The catch block of callOllamaChat.
callOllamaChatCatch(error) ==
    IF error.name = "AbortError"
    THEN Thrown(Err("Error",
            <<"Ollama request timed out after ", TimeoutMsText, "ms.">>))
    ELSE Thrown(Err("Error", <<"Failed to call Ollama: ">> \o error.message))

\* callOllamaChat: the trimmed assistant content, or an error.  A document is
\* [blank, parses, value]; trimming a blank document leaves the empty string.
\* ensureFetch throws before the try block; every other error passes through
\* the catch block.
callOllamaChat(reply) ==
    CASE reply.kind = "nofetch" ->
            Thrown(Err("Error", <<"Global fetch is unavailable in this Node.js runtime.">>))
      [] reply.kind = "network" ->
            callOllamaChatCatch(Err("TypeError", <<"fetch failed">>))
      [] reply.kind = "abort" ->
            callOllamaChatCatch(Err("AbortError", <<"This operation was aborted">>))
      [] reply.kind = "status" ->
            callOllamaChatCatch(Err("Error", <<"Ollama responded with ", "500", ": ", "<no body>">>))
      [] reply.kind = "badjson" ->
            callOllamaChatCatch(Err("SyntaxError", <<"Unexpected token">>))
      [] reply.kind = "body" ->
            IF reply.hasError
            THEN callOllamaChatCatch(Err("Error", <<"Ollama error: ", "model not found">>))
            ELSE IF ~reply.hasContent \/ reply.content.blank
            THEN callOllamaChatCatch(
                    Err("Error", <<"Ollama response missing assistant content.">>))
            ELSE Returned(reply.content)

\* ------------------------------------------------------------------------
\* The moderator decision engine (ollamaClient.ts)
\* ------------------------------------------------------------------------

\* A JSON field value: its typeof (or "undefined" / "null") and its value.
Field(t, v) == [t |-> t, v |-> v]

Undefined == Field("undefined", "")

\* An absent field whose values are texts.
UndefinedText == Field("undefined", <<>>)

\* A parsed JSON value: a non-object, or an object with the three fields the
\* engine reads.
JsonNonObject(type) ==
    [type |-> type, nextSpeaker |-> Undefined, shouldConclude |-> Undefined,
     reason |-> UndefinedText]

JsonObject(nextSpeaker, shouldConclude, reason) ==
    [type |-> "object", nextSpeaker |-> nextSpeaker,
     shouldConclude |-> shouldConclude, reason |-> reason]

\* Texts a moderator gives as its reason.
ReasonTexts == {<<>>, <<" ">>, <<"n", "e", "e", "d", " ", "m", "o", "r", "e", " ", "d", "e", "t", "a", "i", "l">>}

\* Names a moderator may put in nextSpeaker: the panel's, and others.
SpeakerStrings(panel) ==
    Range(panel.debaters) \cup {panel.judge, panel.moderator, "judge", "Nobody", ""}

NextSpeakerFields(panel) ==
    {Undefined, Field("number", ""), Field("null", "")}
    \cup {Field("string", s) : s \in SpeakerStrings(panel)}

ShouldConcludeFields ==
    {Undefined, Field("string", "true"), Field("number", ""),
     Field("boolean", "true"), Field("boolean", "false")}

ReasonFields ==
    {UndefinedText, Field("null", <<>>), Field("number", <<>>)}
    \cup {Field("string", r) : r \in ReasonTexts}

JsonValuesOf(nextSpeakers, shouldConcludes, reasons) ==
    {JsonNonObject(t) : t \in {"null", "number", "string", "boolean", "array"}}
    \cup {JsonObject(n, c, r) : n \in nextSpeakers, c \in shouldConcludes, r \in reasons}

JsonValues(panel) ==
    JsonValuesOf(NextSpeakerFields(panel), ShouldConcludeFields, ReasonFields)

\* The values a moderator answers with during a run: well-typed fields, with
\* a speaker of the panel or a stranger.
RunJsonValues(panel) ==
    JsonValuesOf(
        {Field("string", s) : s \in Range(panel.debaters) \cup {panel.judge, "Nobody"}},
        {Field("boolean", "true"), Field("boolean", "false")},
        {UndefinedText} \cup {Field("string", r) : r \in ReasonTexts \ {<<>>, <<" ">>}})

\* The documents a moderator model can answer with: blank text, text that
\* is not JSON, and the JSON texts of the values above.
Doc(blank, parses, value) == [blank |-> blank, parses |-> parses, value |-> value]

DocsOf(values) ==
    {Doc(TRUE, FALSE, JsonNonObject("null")), Doc(FALSE, FALSE, JsonNonObject("null"))}
    \cup {Doc(FALSE, TRUE, v) : v \in values}

ModeratorDocs(panel) == DocsOf(JsonValues(panel))

ModeratorReplies(panel) == BufferedReplies(ModeratorDocs(panel))

\* The replies of the backend to the moderator's calls of a run.
RunModeratorReplies(panel) == BufferedReplies(DocsOf(RunJsonValues(panel)))

\* JSON.parse
JSONParse(doc) ==
    IF doc.parses THEN Returned(doc.value)
    ELSE Thrown(Err("SyntaxError", <<"Unexpected token">>))

\* isValidModeratorDecision without the membership test of nextSpeaker.
isValidModeratorDecision_anySpeaker(candidate, allowedSpeakers) ==
    IF candidate.type \notin {"object", "array"} THEN FALSE
    ELSE /\ candidate.nextSpeaker.t = "string"
         /\ candidate.shouldConclude.t = "boolean"
         /\ (candidate.reason.t = "undefined" \/ candidate.reason.t = "string")

\* `!candidate || typeof candidate !== "object"`: only objects and arrays
\* pass; an array has none of the fields.
isValidModeratorDecision(candidate, allowedSpeakers) ==
    IF candidate.type \notin {"object", "array"} THEN FALSE
    ELSE /\ candidate.nextSpeaker.t = "string"
         /\ candidate.nextSpeaker.v \in allowedSpeakers
         /\ candidate.shouldConclude.t = "boolean"
         /\ (candidate.reason.t = "undefined" \/ candidate.reason.t = "string")

\* ModeratorDecision; hasReason is FALSE when the reason field is not set.
Decision(nextSpeaker, shouldConclude, hasReason, reason) ==
    [nextSpeaker |-> nextSpeaker, shouldConclude |-> shouldConclude,
     hasReason |-> hasReason, reason |-> reason]

NoDecision == Decision(NULL, FALSE, FALSE, <<>>)

REASON_NO_DEBATERS == <<"Fallback: panel has no debaters">>

REASON_CALL_FAILED == "Fallback: moderator call failed ("

REASON_INVALID_JSON == <<"Fallback: invalid JSON from moderator">>

\* What a call of getModeratorDecision does: whether it made a transport
\* call, and the decision it returns or the error it throws.
ModeratorResult(called, threw, error, decision) ==
    [called |-> called, threw |-> threw, error |-> error, decision |-> decision]

\* The array-then-set of lines 269-271.
AllowedSet(panel) == Range(panel.debaters) \cup {panel.judge}

\* parseModeratorDecision building the decision from whatever was parsed.
parseModeratorDecision_unvalidated(raw, panel) ==
    IF ~JSONParse(raw).ok
    THEN Decision(panel.judge, TRUE, TRUE, REASON_INVALID_JSON)
    ELSE Decision(JSONParse(raw).value.nextSpeaker.v,
                  JSONParse(raw).value.shouldConclude.v = "true", FALSE, <<>>)

\* parseModeratorDecision making every pick of the judge a conclusion.
parseModeratorDecision_judgeConcludes(raw, panel) ==
    LET parsed == JSONParse(raw)
        fallback == Decision(panel.judge, TRUE, TRUE, REASON_INVALID_JSON)
    IN  IF ~parsed.ok THEN fallback
        ELSE IF isValidModeratorDecision(parsed.value, AllowedSet(panel))
        THEN Decision(parsed.value.nextSpeaker.v,
                      \/ parsed.value.shouldConclude.v = "true"
                      \/ parsed.value.nextSpeaker.v = panel.judge,
                      FALSE, <<>>)
        ELSE fallback

\* The second try block: parse, validate, build the decision.
parseModeratorDecision(raw, panel) ==
    LET parsed == JSONParse(raw)
        fallback == Decision(panel.judge, TRUE, TRUE, REASON_INVALID_JSON)
    IN  IF ~parsed.ok THEN fallback
        ELSE IF isValidModeratorDecision(parsed.value, AllowedSet(panel))
        THEN LET r == parsed.value.reason IN
             IF r.t = "string" /\ Len(Trim(r.v)) > 0
             THEN Decision(parsed.value.nextSpeaker.v,
                           parsed.value.shouldConclude.v = "true", TRUE, r.v)
             ELSE Decision(parsed.value.nextSpeaker.v,
                           parsed.value.shouldConclude.v = "true", FALSE, <<>>)
        ELSE fallback

\* getModeratorDecision without the catch block around the transport call.
getModeratorDecision_rethrows(panel, reply) ==
    IF Len(panel.debaters) = 0
    THEN ModeratorResult(FALSE, FALSE, NoError,
            Decision(panel.judge, TRUE, TRUE, REASON_NO_DEBATERS))
    ELSE IF ~callOllamaChat(reply).ok
    THEN ModeratorResult(TRUE, TRUE, callOllamaChat(reply).error, NoDecision)
    ELSE ModeratorResult(TRUE, FALSE, NoError,
            parseModeratorDecision(callOllamaChat(reply).value, panel))

\* getModeratorDecision without the early return of lines 260-266: the
\* moderator is called for a panel without debaters too.
getModeratorDecision_alwaysCalls(panel, reply) ==
    IF ~callOllamaChat(reply).ok
    THEN ModeratorResult(TRUE, FALSE, NoError,
            Decision(panel.judge, TRUE, TRUE,
                     <<REASON_CALL_FAILED>> \o callOllamaChat(reply).error.message \o <<")">>))
    ELSE ModeratorResult(TRUE, FALSE, NoError,
            parseModeratorDecision(callOllamaChat(reply).value, panel))

\* getModeratorDecision going on with the first debater when its call fails.
getModeratorDecision_keepsDebating(panel, reply) ==
    IF Len(panel.debaters) = 0
    THEN ModeratorResult(FALSE, FALSE, NoError,
            Decision(panel.judge, TRUE, TRUE, REASON_NO_DEBATERS))
    ELSE IF ~callOllamaChat(reply).ok
    THEN ModeratorResult(TRUE, FALSE, NoError,
            Decision(panel.debaters[1], FALSE, TRUE,
                     <<REASON_CALL_FAILED>> \o callOllamaChat(reply).error.message \o <<")">>))
    ELSE ModeratorResult(TRUE, FALSE, NoError,
            parseModeratorDecision(callOllamaChat(reply).value, panel))

getModeratorDecision(panel, reply) ==
    IF Len(panel.debaters) = 0
    THEN ModeratorResult(FALSE, FALSE, NoError,
            Decision(panel.judge, TRUE, TRUE, REASON_NO_DEBATERS))
    ELSE LET call == callOllamaChat(reply) IN
         IF ~call.ok
         THEN ModeratorResult(TRUE, FALSE, NoError,
                Decision(panel.judge, TRUE, TRUE,
                         <<REASON_CALL_FAILED>> \o call.error.message \o <<")">>))
         ELSE ModeratorResult(TRUE, FALSE, NoError,
                parseModeratorDecision(call.value, panel))

\* ------------------------------------------------------------------------
\* The streaming transport call, as its caller sees it (ollamaClient.ts)
\* ------------------------------------------------------------------------

\* The errors raised inside the try block of streamOllamaChat.
StreamInnerErrors ==
    {Err("TypeError", <<"fetch failed">>),
     Err("AbortError", <<"This operation was aborted">>),
     Err("Error", <<"Ollama responded with ", "500", ": ", "<no body>">>),
     Err("Error", <<"Ollama response missing body for streaming.">>),
     Err("Error", <<"Failed to parse Ollama stream chunk: ", "{oops">>),
     Err("Error", <<"Ollama stream ended without a completion signal.">>)}

\* The catch block of streamOllamaChat.
streamOllamaChatCatch(error) ==
    IF error.name = "AbortError"
    THEN Thrown(Err("Error",
            <<"Ollama streaming request timed out after ", TimeoutMsText, "ms.">>))
    ELSE Thrown(Err("Error", <<"Failed to stream from Ollama: ">> \o error.message))

\* The errors streamOllamaChat throws: ensureFetch's, raised before the try
\* block, and what the catch block makes of the others.
StreamFailures ==
    {Thrown(Err("Error", <<"Global fetch is unavailable in this Node.js runtime.">>))}
    \cup {streamOllamaChatCatch(e) : e \in StreamInnerErrors}

\* Full texts a debater's model streams.
DebaterTexts == {<<" ", "[", "C", "r", "i", "t", "i", "c", "]", " ", "m", "e", ":", " ", "F", "i", "n", "e", " ", "[", "1", "]", ".">>}

\* Full texts the judge's model streams.
JudgeTexts == {<<" ", "F", "i", "n", "a", "l", " ", "R", "e", "c", "o", "m", "m", "e", "n", "d", "a", "t", "i", "o", "n", ":", " ", "g", "o", ".", " ">>, <<>>}

\* ------------------------------------------------------------------------
\* The streaming transport call, read by read (ollamaClient.ts)
\* ------------------------------------------------------------------------

\* The two bytes of the UTF-8 encoding of "é", and the replacement character
\* a decoder puts in place of a malformed sequence.
LEAD_BYTE == "0xC3"

CONTINUATION_BYTE == "0xA9"

REPLACEMENT_CHARACTER == "U+FFFD"

\* What a TextDecoder gives for its input: the text decoded, and the bytes
\* of an incomplete sequence it holds back.
Decoded(text, pending) == [text |-> text, pending |-> pending]

PrependText(c, d) == Decoded(<<c>> \o d.text, d.pending)

RECURSIVE DecodeBytes(_, _)
\* The UTF-8 decoder over `input`; with `stream`, an incomplete sequence at
\* the end is held back, and replaced otherwise.
DecodeBytes(input, stream) ==
    IF input = <<>> THEN Decoded(<<>>, <<>>)
    ELSE IF Head(input) = LEAD_BYTE
    THEN IF Len(input) = 1
         THEN IF stream THEN Decoded(<<>>, input)
              ELSE Decoded(<<REPLACEMENT_CHARACTER>>, <<>>)
         ELSE IF input[2] = CONTINUATION_BYTE
         THEN PrependText("é", DecodeBytes(Tail(Tail(input)), stream))
         ELSE PrependText(REPLACEMENT_CHARACTER, DecodeBytes(Tail(input), stream))
    ELSE IF Head(input) = CONTINUATION_BYTE
    THEN PrependText(REPLACEMENT_CHARACTER, DecodeBytes(Tail(input), stream))
    ELSE PrependText(Head(input), DecodeBytes(Tail(input), stream))

\* decoder.decode(value, { stream: true })
decodeChunk(pending, value) == DecodeBytes(pending \o value, TRUE)

\* decoder.decode()
decodeEnd(pending) == DecodeBytes(pending, FALSE)

\* The members of the objects a backend streams, as JSON text.
MEMBER_HEL == "\"message\":{\"content\":\"Hel\"}"

MEMBER_EMPTY == "\"message\":{\"content\":\"\"}"

MEMBER_DONE == "\"done\":true"

MEMBER_LO_DONE == "\"message\":{\"content\":\"lo\"},\"done\":true"

CAFE_OPEN == "{\"message\":{\"content\":\"caf"

CAFE_CLOSE == "\"}}"

\* A parsed line: null, or an object with message.content (when it has one)
\* and done.
Payload(type, hasContent, content, done) ==
    [type |-> type, hasContent |-> hasContent, content |-> content, done |-> done]

\* JSON.parse over a line of the stream: the lines that are JSON texts, and
\* a SyntaxError for every other.
JSONParseLine(line) ==
    CASE line = <<"{", MEMBER_HEL, "}">> ->
            Returned(Payload("object", TRUE, <<"H", "e", "l">>, FALSE))
      [] line = <<"{", MEMBER_EMPTY, "}">> ->
            Returned(Payload("object", TRUE, <<>>, FALSE))
      [] line = <<"{", MEMBER_DONE, "}">> ->
            Returned(Payload("object", FALSE, <<>>, TRUE))
      [] line = <<"{", MEMBER_LO_DONE, "}">> ->
            Returned(Payload("object", TRUE, <<"l", "o">>, TRUE))
      [] line = <<CAFE_OPEN, "é", CAFE_CLOSE>> ->
            Returned(Payload("object", TRUE, <<"c", "a", "f", "é">>, FALSE))
      [] line = <<CAFE_OPEN, REPLACEMENT_CHARACTER, CAFE_CLOSE>> ->
            Returned(Payload("object", TRUE, <<"c", "a", "f", REPLACEMENT_CHARACTER>>, FALSE))
      [] line = <<CAFE_OPEN, REPLACEMENT_CHARACTER, REPLACEMENT_CHARACTER, CAFE_CLOSE>> ->
            Returned(Payload("object", TRUE,
                <<"c", "a", "f", REPLACEMENT_CHARACTER, REPLACEMENT_CHARACTER>>, FALSE))
      [] line = <<"null">> ->
            Returned(Payload("null", FALSE, <<>>, FALSE))
      [] OTHER -> Thrown(Err("SyntaxError", <<"Unexpected token">>))

\* The locals of streamOllamaChat that its closures read and write, with
\* the fragments given to onToken so far and the error thrown, if any.
StreamState(buffer, fullText, finished, tokens, threw, error) ==
    [buffer |-> buffer, fullText |-> fullText, finished |-> finished,
     tokens |-> tokens, threw |-> threw, error |-> error]

Throwing(s, error) == [s EXCEPT !.threw = TRUE, !.error = error]

\* takePayload keeping the fragment of the object that carries done to
\* itself: it is accumulated and not passed on.
takePayload_silentLast(s, payload) ==
    IF payload.type = "null"
    THEN Throwing(s, Err("TypeError",
            <<"Cannot read properties of null (reading 'message')">>))
    ELSE [s EXCEPT
            !.fullText = IF payload.hasContent /\ payload.content # <<>>
                         THEN @ \o payload.content ELSE @,
            !.tokens = IF payload.hasContent /\ payload.content # <<>> /\ ~payload.done
                       THEN Append(@, payload.content) ELSE @,
            !.finished = @ \/ payload.done]

\* Lines 136-144: the fragment is accumulated and passed on, and done noted.
takePayload(s, payload) ==
    IF payload.type = "null"
    THEN Throwing(s, Err("TypeError",
            <<"Cannot read properties of null (reading 'message')">>))
    ELSE [s EXCEPT
            !.fullText = IF payload.hasContent /\ payload.content # <<>>
                         THEN @ \o payload.content ELSE @,
            !.tokens = IF payload.hasContent /\ payload.content # <<>>
                       THEN Append(@, payload.content) ELSE @,
            !.finished = @ \/ payload.done]

\* parseLine passing over a line that is not a JSON text.
parseLine_skipping(s, line) ==
    IF ~JSONParseLine(line).ok
    THEN s
    ELSE takePayload(s, JSONParseLine(line).value)

\* Lines 129-134, for a line that is not blank.
parseLine(s, line) ==
    IF ~JSONParseLine(line).ok
    THEN Throwing(s, Err("Error", <<"Failed to parse Ollama stream chunk: ">> \o line))
    ELSE takePayload(s, JSONParseLine(line).value)

processLine(s, rawLine) ==
    IF Trim(rawLine) = <<>> THEN s ELSE parseLine(s, Trim(rawLine))

\* buffer.indexOf("\n"), counted from 1; 0 when there is none.
IndexOfNewline(buffer) ==
    IF \E i \in DOMAIN buffer : buffer[i] = "\n"
    THEN CHOOSE i \in DOMAIN buffer :
            buffer[i] = "\n" /\ \A j \in 1..(i - 1) : buffer[j] # "\n"
    ELSE 0

RECURSIVE flushLines(_), flushNext(_)
\* The while loop of flushBuffer: the line up to the first newline is taken
\* off the buffer and processed.
flushLines(s) ==
    IF IndexOfNewline(s.buffer) = 0 THEN s
    ELSE flushNext(processLine(
            [s EXCEPT !.buffer = SubSeq(@, IndexOfNewline(@) + 1, Len(@))],
            SubSeq(s.buffer, 1, IndexOfNewline(s.buffer) - 1)))

\* Lines 155-159: a throw leaves the loop, and so does done, emptying the
\* buffer and returning from flushBuffer.
flushNext(s) ==
    IF s.threw THEN s
    ELSE IF s.finished THEN [s EXCEPT !.buffer = <<>>]
    ELSE flushLines(s)

\* Lines 162-166, reached unless the loop threw or returned: s is the state
\* flushBuffer was entered with, flushed the state the loop left.
flushForce(s, flushed, force) ==
    IF flushed.threw \/ (flushed.finished /\ IndexOfNewline(s.buffer) # 0)
    THEN flushed
    ELSE IF force /\ Len(Trim(flushed.buffer)) > 0
    THEN processLine([flushed EXCEPT !.buffer = <<>>], flushed.buffer)
    ELSE flushed

flushBuffer(s, force) == flushForce(s, flushLines(s), force)

\* `buffer += ...`
appendToBuffer(s, text) == [s EXCEPT !.buffer = @ \o text]

\* Lines 174-175: a chunk is decoded onto the buffer and the buffer flushed.
readChunk(s, decoded) == flushBuffer(appendToBuffer(s, decoded.text), FALSE)

\* Lines 182-183: what the decoder held back is decoded onto the buffer and
\* the buffer flushed, its last line included.
readEnd(s, decoded) == flushBuffer(appendToBuffer(s, decoded.text), TRUE)

\* ------------------------------------------------------------------------
\* The orchestrator (council.ts)
\* ------------------------------------------------------------------------

\* The questions a caller passes.
UserQuestions == {<<>>, <<" ", "\n">>, <<" ", "S", "h", "i", "p", " ", "i", "t", "?", " ">>}

\* options.maxTurns, or DEFAULT_MAX_TURNS when it is not given.
MaxTurnsOptions ==
    (0..MaxSmallTurns) \cup {MAX_DEBATER_TURNS, DEFAULT_MAX_TURNS}

Msg(speaker, content) == [speaker |-> speaker, content |-> content]

HookCall(hook, agent, text) == [hook |-> hook, agent |-> agent, text |-> text]

\* What runConversation has done for its caller so far.
Pending == [status |-> "pending", error |-> NoError, judgment |-> <<>>]

RunReturned(judgment) ==
    [status |-> "returned", error |-> NoError, judgment |-> judgment]

RunThrew(error) == [status |-> "threw", error |-> error, judgment |-> <<>>]

NoResult == ModeratorResult(FALSE, FALSE, NoError, NoDecision)

debaterNameSet(p) == Range(p.debaters)

knownSpeakers(p) == Range(p.debaters) \cup {p.judge}

\* What runSingleTurnForAgent does once the streaming call has settled: the
\* hooks it calls and the entry it appends.
TurnEffect(threw, error, hooks, entries) ==
    [threw |-> threw, error |-> error, hooks |-> hooks, entries |-> entries]

\* Lines 228-237: the streamed text, or what the catch block assigns.
responseTextOf(stream) ==
    IF stream.ok THEN stream.value
    ELSE ERROR_TAG \o <<" ">> \o stream.error.message

\* Lines 239-241: texts that start with "[ERROR]" bypass the formatter.
cleanedResponse(agent, responseText) ==
    IF ~StartsWith(responseText, ERROR_TAG)
    THEN formatAgentOutput(NameChars(agent), responseText)
    ELSE responseText

\* completeTurn without `transcript.push`: the turn ends with no entry.
completeTurn_noEntry(agent, stream, cleaned) ==
    TurnEffect(FALSE, NoError,
        (IF stream.ok THEN <<>>
         ELSE <<HookCall("onAgentError", agent, stream.error.message)>>)
            \o <<HookCall("onAgentTurnComplete", agent, cleaned)>>,
        <<>>)

\* Lines 235 and 243-249: the hooks called and the entry appended.
completeTurn(agent, stream, cleaned) ==
    TurnEffect(FALSE, NoError,
        (IF stream.ok THEN <<>>
         ELSE <<HookCall("onAgentError", agent, stream.error.message)>>)
            \o <<HookCall("onAgentTurnComplete", agent, cleaned)>>,
        <<Msg(agent, cleaned)>>)

\* runSingleTurnForAgent without the catch block: the error of the call leaves
\* the function.
runSingleTurnForAgent_rethrows(agent, stream) ==
    IF stream.ok
    THEN completeTurn(agent, stream, cleanedResponse(agent, responseTextOf(stream)))
    ELSE TurnEffect(TRUE, stream.error, <<>>, <<>>)

runSingleTurnForAgent(agent, stream) ==
    completeTurn(agent, stream, cleanedResponse(agent, responseTextOf(stream)))

\* What runJudge does once the streaming call has settled.
\* Lines 299-304 of runJudge: the hook called and the entry appended.
completeJudge(judge, cleanedJudgment) ==
    TurnEffect(FALSE, NoError,
        <<HookCall("onJudgeComplete", judge, cleanedJudgment)>>,
        <<Msg(judge, cleanedJudgment)>>)

\* runJudge with the catch block of runSingleTurnForAgent: the error becomes
\* the judge's entry.
runJudge_recovers(judge, stream) ==
    IF ~stream.ok
    THEN completeJudge(judge, ERROR_TAG \o <<" ">> \o stream.error.message)
    ELSE completeJudge(judge, Trim(cleanSpeakerOutput(stream.value)))

\* runJudge without the trim of line 301.
runJudge_untrimmed(judge, stream) ==
    IF ~stream.ok
    THEN TurnEffect(TRUE, stream.error,
            <<HookCall("onJudgeError", judge, stream.error.message)>>, <<>>)
    ELSE completeJudge(judge, cleanSpeakerOutput(stream.value))

runJudge(judge, stream) ==
    IF ~stream.ok
    THEN TurnEffect(TRUE, stream.error,
            <<HookCall("onJudgeError", judge, stream.error.message)>>, <<>>)
    ELSE completeJudge(judge, Trim(cleanSpeakerOutput(stream.value)))

RECURSIVE collectFrom(_, _, _)
\* The loop of collectActiveSpeakerNames, with `ordered` built so far.
collectFrom(messages, p, ordered) ==
    IF messages = <<>> THEN ordered
    ELSE LET s == Head(messages).speaker IN
         IF \/ s = "User" \/ s = p.judge
            \/ s \notin Range(p.debaters)
            \/ s \in Range(ordered)
         THEN collectFrom(Tail(messages), p, ordered)
         ELSE collectFrom(Tail(messages), p, Append(ordered, s))

\* collectActiveSpeakerNames keeping every entry that is not the user's or
\* the judge's.
collectActiveSpeakerNames_unfiltered(messages, p) ==
    [i \in DOMAIN SelectSeq(messages, LAMBDA m : m.speaker \notin {"User", p.judge}) |->
        SelectSeq(messages, LAMBDA m : m.speaker \notin {"User", p.judge})[i].speaker]

collectActiveSpeakerNames(messages, p) == collectFrom(messages, p, <<>>)

\* The loop condition with <= for <.
LoopCondition_inclusive(t, mt, sc) == t <= mt /\ ~sc

\* `while (turns < maxTurns && !shouldConclude)`
LoopCondition(t, mt, sc) == t < mt /\ ~sc

\* The hard cap compared with > instead of >=.
HardCapReached_late(speaker, dt, p) ==
    speaker \in debaterNameSet(p) /\ dt > MAX_DEBATER_TURNS

\* `debaterNameSet.has(currentSpeaker) && debaterTurns >= MAX_DEBATER_TURNS`
HardCapReached(speaker, dt, p) ==
    speaker \in debaterNameSet(p) /\ dt >= MAX_DEBATER_TURNS

\* The alternatives without the filter.
Alternatives_unfiltered(p, last) == p.debaters

\* `debaterNames.filter((name) => name !== lastSpeaker)`
Alternatives(p, last) == SelectSeq(p.debaters, LAMBDA name : name # last)

\* Lines 149-170 without the membership test of lines 163-165: the speaker
\* named is made the next speaker, whoever it is.
ResolveNextSpeaker_trusting(d, last, p) ==
    LET repeated ==
            /\ ~d.shouldConclude
            /\ d.nextSpeaker \in debaterNameSet(p)
            /\ d.nextSpeaker = last
        candidates ==
            IF repeated /\ Len(Alternatives(p, last)) > 0
            THEN Range(Alternatives(p, last))
            ELSE {d.nextSpeaker}
    IN  {IF ~d.shouldConclude /\ n = p.judge THEN <<n, TRUE>>
         ELSE <<n, d.shouldConclude>> : n \in candidates}

\* The loop body without lines 166-167: the judge named without
\* shouldConclude leaves the flag as the decision has it.
ResolveNextSpeaker_judgeUnflagged(d, last, p) ==
    LET repeated ==
            /\ ~d.shouldConclude
            /\ d.nextSpeaker \in debaterNameSet(p)
            /\ d.nextSpeaker = last
        candidates ==
            IF repeated /\ Len(Alternatives(p, last)) > 0
            THEN Range(Alternatives(p, last))
            ELSE {d.nextSpeaker}
    IN  {IF n \notin knownSpeakers(p) THEN <<p.judge, TRUE>>
         ELSE <<n, d.shouldConclude>> : n \in candidates}

\* The loop body without `currentSpeaker = nextSpeaker`: the speaker who just
\* spoke stays the current speaker.
ResolveNextSpeaker_noHandOff(d, last, p) ==
    {<<last, d.shouldConclude \/ d.nextSpeaker \notin debaterNameSet(p)>>}

\* Lines 149-170: the <<nextSpeaker, shouldConclude>> pairs the loop body can
\* end with for a decision; Math.random picks any of the alternatives.
ResolveNextSpeaker(d, last, p) ==
    LET repeated ==
            /\ ~d.shouldConclude
            /\ d.nextSpeaker \in debaterNameSet(p)
            /\ d.nextSpeaker = last
        candidates ==
            IF repeated /\ Len(Alternatives(p, last)) > 0
            THEN Range(Alternatives(p, last))
            ELSE {d.nextSpeaker}
    IN  {IF n \notin knownSpeakers(p) THEN <<p.judge, TRUE>>
         ELSE IF ~d.shouldConclude /\ n = p.judge THEN <<n, TRUE>>
         ELSE <<n, d.shouldConclude>> : n \in candidates}

\* ------------------------------------------------------------------------
\* State
\* ------------------------------------------------------------------------

VARIABLES
    panel,          \* the resolved panel of the run
    maxTurns,       \* options.maxTurns ?? DEFAULT_MAX_TURNS
    userQuestion,   \* the argument of runConversation
    question,       \* userQuestion.trim()
    transcript,     \* Message[]
    turns,
    shouldConclude,
    currentSpeaker,
    lastSpeaker,
    debaterTurns,
    decision,       \* what getModeratorDecision did in this loop iteration
    participants,   \* the names handed to the judge prompt
    pc,             \* where the run is: the call it awaits, or its end
    outcome,        \* what runConversation returned or threw
    hookLog,        \* the hook calls made so far, in order
    failures,       \* debater calls that failed so far
    settled,        \* how the streaming call that settled last ended
    modReply,       \* the backend's reply to a lone buffered call
    mode,           \* the transport call made: buffered or streaming
    streamReply,    \* the backend's reply to a lone streaming call
    unread,         \* the bytes of the response body not read yet
    pending,        \* the bytes the decoder holds back
    reader,         \* buffer, fullText, finished, and the fragments passed on
    timeout,        \* the deadline timer is armed
    aborted,        \* controller.signal.aborted
    script,         \* the replies a stubbed backend gives the moderator, in order
    served,         \* how many of them it has given
    shouldStream,   \* a token hook was given (runSingleTurnForAgent, runJudge)
    fragments,      \* the fragments the backend has yet to stream
    rawResponse,    \* the fragments the token handler has put together
    streamedCleanLength, \* how much of the cleaned text the token hook was given
    prompt          \* what buildAgentMessages put in the prompt of a persona

vars ==
    <<panel, maxTurns, userQuestion, question, transcript, turns, shouldConclude,
      currentSpeaker, lastSpeaker, debaterTurns, decision, participants, pc,
      outcome, hookLog, failures, settled, modReply, mode, streamReply, unread,
      pending, reader, timeout, aborted, script, served, shouldStream, fragments,
      rawResponse, streamedCleanLength, prompt>>

\* The arguments of the run: never assigned after the call.
args == <<panel, maxTurns, userQuestion, modReply, script>>

\* The locals of runConversation.
locals ==
    <<question, transcript, turns, shouldConclude, currentSpeaker, lastSpeaker,
      debaterTurns>>

\* The state of a lone transport call.
transport == <<mode, streamReply, unread, pending, reader, timeout, aborted>>

\* A lone persona call: the prompt built for it, the token handler's locals
\* and what the backend has yet to stream.
personaCall == <<shouldStream, fragments, rawResponse, streamedCleanLength, prompt>>

\* transcriptWindow is optional, in a persona and in the options: the value
\* that stands for its absence.
NoWindow == -1

\* Nothing was built for a prompt.
NoPrompt ==
    [agent |-> NULL, agentWindow |-> NoWindow, transcriptWindow |-> 0, windowSize |-> 0,
     recent |-> <<>>, priorOtherSpeakers |-> <<>>, notYetSpeakers |-> <<>>]

\* No streaming call has settled yet.
Unsettled == Returned(<<>>)

NoReply == [kind |-> "none", hasError |-> FALSE, hasContent |-> FALSE, content |-> <<>>]

StreamReply(kind, bytes) == [kind |-> kind, bytes |-> bytes]

\* Lines 101 and 121-122: fullText, buffer and finished as declared.
NewStream == StreamState(<<>>, <<>>, FALSE, <<>>, FALSE, NoError)

\* No lone transport call is made.
NoTransport ==
    /\ mode = "none"
    /\ streamReply = StreamReply("none", <<>>)
    /\ unread = <<>>
    /\ pending = <<>>
    /\ reader = NewStream
    /\ timeout = FALSE
    /\ aborted = FALSE

\* No persona's call is followed on its own.
NoPersonaCall ==
    /\ prompt = NoPrompt
    /\ shouldStream = FALSE
    /\ fragments = <<>>
    /\ rawResponse = <<>>
    /\ streamedCleanLength = 0

\* The backend of the moderator is not stubbed.
NoScript == script = <<>> /\ served = 0

\* The results getModeratorDecision can give during a run, over the replies
\* of the backend.
ModeratorResults ==
    [p \in Panels |-> {getModeratorDecision(p, r) : r \in RunModeratorReplies(p)}]

\* The outcomes of a debater's streaming call: a full text, a deadline that
\* expired or a stream that ended early.
DebaterStreams ==
    {Returned(t) : t \in DebaterTexts}
        \cup {f \in StreamFailures :
                \/ f.error.message[1] = "Ollama streaming request timed out after "
                \/ "Ollama stream ended without a completion signal." \in Range(f.error.message)}

\* The outcomes of the judge's streaming call.

JudgeStreams == {Returned(t) : t \in JudgeTexts} \cup StreamFailures

\* runSingleTurnForAgent and runJudge, tabulated over the personas and the
\* outcomes of their calls.
TurnEffects ==
    [a \in Range(DebaterPool) \cup {JudgeName}, s \in DebaterStreams |->
        runSingleTurnForAgent(a, s)]

JudgeEffects == [s \in JudgeStreams |-> runJudge(JudgeName, s)]

\* The state in which runConversation is called.
InitRun ==
    /\ panel \in Panels
    /\ maxTurns \in MaxTurnsOptions
    /\ userQuestion \in UserQuestions
    /\ question = <<>>
    /\ transcript = <<>>
    /\ turns = 0
    /\ shouldConclude = FALSE
    /\ currentSpeaker = NULL
    /\ lastSpeaker = NULL
    /\ debaterTurns = 0
    /\ decision = NoResult
    /\ participants = <<>>
    /\ pc = "start"
    /\ outcome = Pending
    /\ hookLog = <<>>
    /\ failures = 0
    /\ settled = Unsettled
    /\ modReply = NoReply
    /\ NoTransport
    /\ NoPersonaCall

Init == InitRun /\ NoScript

\* ------------------------------------------------------------------------
\* runConversation
\* ------------------------------------------------------------------------

\* Begin with `debaterNames[0]` for the first speaker, without `?? judgeName`.
Begin_noJudgeDefault ==
    /\ pc = "start"
    /\ IF Len(Trim(userQuestion)) = 0
       THEN /\ pc' = "failed"
            /\ outcome' = RunThrew(Err("Error", <<"User question cannot be empty.">>))
            /\ UNCHANGED locals
       ELSE /\ question' = Trim(userQuestion)
            /\ transcript' = <<Msg("User", Trim(userQuestion))>>
            /\ turns' = 0
            /\ shouldConclude' = FALSE
            /\ currentSpeaker' = IF Len(panel.debaters) > 0 THEN panel.debaters[1] ELSE NULL
            /\ lastSpeaker' = NULL
            /\ debaterTurns' = 0
            /\ pc' = "loop"
            /\ UNCHANGED outcome
    /\ UNCHANGED <<args, transport, personaCall, served, decision, participants, hookLog, failures, settled>>

\* Lines 84-113: trim the question, create the transcript and the counters.
Begin ==
    /\ pc = "start"
    /\ IF Len(Trim(userQuestion)) = 0
       THEN /\ pc' = "failed"
            /\ outcome' = RunThrew(Err("Error", <<"User question cannot be empty.">>))
            /\ UNCHANGED locals
       ELSE /\ question' = Trim(userQuestion)
            /\ transcript' = <<Msg("User", Trim(userQuestion))>>
            /\ turns' = 0
            /\ shouldConclude' = FALSE
            /\ currentSpeaker' =
                  IF Len(panel.debaters) > 0 THEN panel.debaters[1] ELSE panel.judge
            /\ lastSpeaker' = NULL
            /\ debaterTurns' = 0
            /\ pc' = "loop"
            /\ UNCHANGED outcome
    /\ UNCHANGED <<args, transport, personaCall, served, decision, participants, hookLog, failures, settled>>

\* Lines 173-178 and the start of runJudge: the active participants are
\* collected, the judge-start hook is called and the judge's call is sent.
StartJudge ==
    /\ participants' = collectActiveSpeakerNames(transcript, panel)
    /\ hookLog' = Append(hookLog, HookCall("onJudgeStart", panel.judge, <<>>))
    /\ decision' = NoResult
    /\ pc' = "judge"

\* Lines 115-119: the current speaker is the judge; leave the loop.
LoopExitJudge ==
    /\ pc = "loop"
    /\ LoopCondition(turns, maxTurns, shouldConclude)
    /\ currentSpeaker = panel.judge
    /\ shouldConclude' = TRUE
    /\ StartJudge
    /\ UNCHANGED <<args, transport, personaCall, served, question, transcript, turns, currentSpeaker, lastSpeaker,
                   debaterTurns, outcome, failures, settled>>

\* Line 115: the loop condition is false; leave the loop.
LoopExitCondition ==
    /\ pc = "loop"
    /\ ~LoopCondition(turns, maxTurns, shouldConclude)
    /\ StartJudge
    /\ UNCHANGED <<args, transport, personaCall, served, locals, outcome, failures, settled>>

\* The loop body without the judge check of lines 116-119: the judge is
\* given a turn like a debater.
StartTurn_judgeToo ==
    /\ pc = "loop"
    /\ LoopCondition(turns, maxTurns, shouldConclude)
    /\ pc' = "turn"
    /\ hookLog' = Append(hookLog, HookCall("onAgentTurnStart", currentSpeaker, <<>>))
    /\ decision' = NoResult
    /\ UNCHANGED <<args, transport, personaCall, served, locals, participants, outcome, failures, settled>>

\* Lines 121-133 and the start of runSingleTurnForAgent: the persona is
\* looked up, the turn-start hook is called and the persona's call is sent.
StartTurn ==
    /\ pc = "loop"
    /\ LoopCondition(turns, maxTurns, shouldConclude)
    /\ currentSpeaker # panel.judge
    /\ IF currentSpeaker \notin knownSpeakers(panel)
       THEN /\ pc' = "failed"
            /\ outcome' = RunThrew(Err("Error", <<"Unknown persona: ", currentSpeaker>>))
            /\ UNCHANGED hookLog
       ELSE /\ pc' = "turn"
            /\ hookLog' = Append(hookLog, HookCall("onAgentTurnStart", currentSpeaker, <<>>))
            /\ UNCHANGED outcome
    /\ decision' = NoResult
    /\ UNCHANGED <<args, transport, personaCall, served, locals, participants, failures, settled>>

\* FinishTurn counting the turns whose call succeeded only: a failed turn
\* leaves the counters and the last speaker as they were.
FinishTurn_failedNotCounted(stream, effect) ==
    LET dt == IF currentSpeaker \in debaterNameSet(panel) /\ stream.ok
              THEN debaterTurns + 1 ELSE debaterTurns
    IN  /\ settled' = stream
        /\ hookLog' = hookLog \o effect.hooks
        /\ transcript' = transcript \o effect.entries
        /\ turns' = IF stream.ok THEN turns + 1 ELSE turns
        /\ debaterTurns' = dt
        /\ lastSpeaker' = IF stream.ok THEN currentSpeaker ELSE lastSpeaker
        /\ IF HardCapReached(currentSpeaker, dt, panel)
           THEN currentSpeaker' = panel.judge /\ pc' = "loop"
           ELSE UNCHANGED currentSpeaker /\ pc' = "decide"
        /\ UNCHANGED <<args, transport, personaCall, served, question, shouldConclude, decision,
                       participants, outcome>>

\* The rest of runSingleTurnForAgent and lines 135-145, for a streaming call
\* that settled as `stream`, with the effect `effect`.
FinishTurn(stream, effect) ==
    LET dt == IF currentSpeaker \in debaterNameSet(panel)
              THEN debaterTurns + 1 ELSE debaterTurns
    IN  /\ settled' = stream
        /\ hookLog' = hookLog \o effect.hooks
        /\ transcript' = transcript \o effect.entries
        /\ IF effect.threw
           THEN /\ pc' = "failed"
                /\ outcome' = RunThrew(effect.error)
                /\ UNCHANGED <<turns, debaterTurns, lastSpeaker, currentSpeaker>>
           ELSE /\ turns' = turns + 1
                /\ debaterTurns' = dt
                /\ lastSpeaker' = currentSpeaker
                /\ IF HardCapReached(currentSpeaker, dt, panel)
                   THEN currentSpeaker' = panel.judge /\ pc' = "loop"
                   ELSE UNCHANGED currentSpeaker /\ pc' = "decide"
                /\ UNCHANGED outcome
        /\ UNCHANGED <<args, transport, personaCall, served, question, shouldConclude, decision, participants>>

\* The debater's streaming call returns its full text.
TurnSucceeds ==
    /\ pc = "turn"
    /\ \E stream \in {s \in DebaterStreams : s.ok} :
          FinishTurn(stream, TurnEffects[currentSpeaker, stream])
    /\ UNCHANGED failures

\* The debater's streaming call fails.
TurnFails ==
    /\ pc = "turn"
    /\ failures < MaxDebaterFailures
    /\ failures' = failures + 1
    /\ \E stream \in {s \in DebaterStreams : ~s.ok} :
          FinishTurn(stream, TurnEffects[currentSpeaker, stream])

\* The moderator's call repeated for as long as it fails, in place of the
\* fallback decision.
ModeratorReturns_retries ==
    /\ pc = "decide"
    /\ \E res \in ModeratorResults[panel] :
          /\ decision' = res
          /\ IF res.decision.hasReason
                /\ Head(res.decision.reason) = REASON_CALL_FAILED
             THEN /\ pc' = "decide"
                  /\ UNCHANGED <<shouldConclude, currentSpeaker, outcome>>
             ELSE /\ \E next \in ResolveNextSpeaker(res.decision, lastSpeaker, panel) :
                        /\ currentSpeaker' = next[1]
                        /\ shouldConclude' = next[2]
                  /\ pc' = "loop"
                  /\ UNCHANGED outcome
    /\ UNCHANGED <<args, transport, personaCall, served, question, transcript, turns, lastSpeaker, debaterTurns,
                   participants, hookLog, failures, settled>>

\* Lines 148-170: getModeratorDecision settles and the next speaker is set.
ModeratorReturns ==
    /\ pc = "decide"
    /\ \E res \in ModeratorResults[panel] :
          /\ decision' = res
          /\ IF res.threw
             THEN /\ pc' = "failed"
                  /\ outcome' = RunThrew(res.error)
                  /\ UNCHANGED <<shouldConclude, currentSpeaker>>
             ELSE /\ \E next \in ResolveNextSpeaker(res.decision, lastSpeaker, panel) :
                        /\ currentSpeaker' = next[1]
                        /\ shouldConclude' = next[2]
                  /\ pc' = "loop"
                  /\ UNCHANGED outcome
    /\ UNCHANGED <<args, transport, personaCall, served, question, transcript, turns, lastSpeaker, debaterTurns,
                   participants, hookLog, failures, settled>>

\* The end of the run without the judge's entry in the transcript.
FinishJudge_noEntry(stream, effect) ==
    /\ settled' = stream
    /\ hookLog' = hookLog \o effect.hooks
    /\ UNCHANGED transcript
    /\ IF effect.threw
       THEN pc' = "failed" /\ outcome' = RunThrew(effect.error)
       ELSE pc' = "done" /\ outcome' = RunReturned(effect.entries[1].content)
    /\ UNCHANGED <<args, transport, personaCall, served, question, turns, shouldConclude, currentSpeaker,
                   lastSpeaker, debaterTurns, decision, participants, failures>>

\* The rest of runJudge and lines 178-180, for a call that settled as
\* `stream`, with the effect `effect`.
FinishJudge(stream, effect) ==
    /\ settled' = stream
    /\ hookLog' = hookLog \o effect.hooks
    /\ transcript' = transcript \o effect.entries
    /\ IF effect.threw
       THEN pc' = "failed" /\ outcome' = RunThrew(effect.error)
       ELSE pc' = "done" /\ outcome' = RunReturned(effect.entries[1].content)
    /\ UNCHANGED <<args, transport, personaCall, served, question, turns, shouldConclude, currentSpeaker,
                   lastSpeaker, debaterTurns, decision, participants, failures>>

\* The judge's streaming call returns its full text.
JudgeSucceeds ==
    /\ pc = "judge"
    /\ \E stream \in {s \in JudgeStreams : s.ok} : FinishJudge(stream, JudgeEffects[stream])

\* The judge's streaming call fails.
JudgeFails ==
    /\ pc = "judge"
    /\ \E stream \in {s \in JudgeStreams : ~s.ok} : FinishJudge(stream, JudgeEffects[stream])

Next ==
    \/ Begin
    \/ StartTurn
    \/ TurnSucceeds
    \/ TurnFails
    \/ ModeratorReturns
    \/ LoopExitJudge
    \/ LoopExitCondition
    \/ JudgeSucceeds
    \/ JudgeFails

Spec == Init /\ [][Next]_vars

\* Every call is bound to its deadline, so a pending call settles and the
\* synchronous code between two calls runs.
FairSpec == Spec /\ WF_vars(Next)


\* ------------------------------------------------------------------------
\* A run whose moderator is answered from a script
\* ------------------------------------------------------------------------

\* The replies of a script: the call fails, the text is not JSON, or it is
\* an object naming a speaker of the panel or a stranger, concluding or not.
ScriptReplies(p) ==
    {r \in RunModeratorReplies(p) :
        \/ r.kind = "network"
        \/ /\ r.kind = "body"
           /\ r.hasContent
           /\ ~r.content.blank
           /\ \/ ~r.content.parses
              \/ /\ r.content.value.type = "object"
                 /\ r.content.value.reason = UndefinedText}

Scripts(p) == UNION {[1..n -> ScriptReplies(p)] : n \in 0..MaxScript}

InitScripted ==
    /\ InitRun
    /\ script \in Scripts(panel)
    /\ served = 0

\* Lines 148-170, the backend answering getModeratorDecision's call with the
\* next reply of the script.
ScriptedModeratorReturns ==
    /\ pc = "decide"
    /\ served < Len(script)
    /\ served' = served + 1
    /\ decision' = getModeratorDecision(panel, script[served + 1])
    /\ \E next \in ResolveNextSpeaker(
                    getModeratorDecision(panel, script[served + 1]).decision,
                    lastSpeaker, panel) :
          /\ currentSpeaker' = next[1]
          /\ shouldConclude' = next[2]
    /\ pc' = "loop"
    /\ UNCHANGED <<args, transport, personaCall, question, transcript, turns, lastSpeaker, debaterTurns,
                   participants, outcome, hookLog, failures, settled>>

NextScripted ==
    \/ Begin
    \/ StartTurn
    \/ TurnSucceeds
    \/ TurnFails
    \/ ScriptedModeratorReturns
    \/ LoopExitJudge
    \/ LoopExitCondition
    \/ JudgeSucceeds
    \/ JudgeFails

SpecScripted == InitScripted /\ [][NextScripted]_vars

\* ------------------------------------------------------------------------
\* A run whose getModeratorDecision is a stub
\* ------------------------------------------------------------------------

\* The decisions a stub hands to the orchestrator: any speaker of the panel
\* or a stranger, concluding or not.
StubDecisions(p) ==
    {Decision(n, c, FALSE, <<>>) : n \in knownSpeakers(p) \cup {"Nobody"}, c \in BOOLEAN}

\* Lines 148-170, the stub settling the await with one of its decisions.
StubbedModeratorReturns ==
    /\ pc = "decide"
    /\ \E d \in StubDecisions(panel) :
          /\ decision' = ModeratorResult(FALSE, FALSE, NoError, d)
          /\ \E next \in ResolveNextSpeaker(d, lastSpeaker, panel) :
                /\ currentSpeaker' = next[1]
                /\ shouldConclude' = next[2]
    /\ pc' = "loop"
    /\ UNCHANGED <<args, transport, personaCall, served, question, transcript, turns, lastSpeaker,
                   debaterTurns, participants, outcome, hookLog, failures, settled>>

NextStubbed ==
    \/ Begin
    \/ StartTurn
    \/ TurnSucceeds
    \/ TurnFails
    \/ StubbedModeratorReturns
    \/ LoopExitJudge
    \/ LoopExitCondition
    \/ JudgeSucceeds
    \/ JudgeFails

SpecStubbed == Init /\ [][NextStubbed]_vars

\* ------------------------------------------------------------------------
\* formatAgentOutput applied to a text, and to its own output
\* ------------------------------------------------------------------------

\* What a model's text is made of: a bracketed speaker tag, a "Me:" prefix,
\* the persona's own name as a prefix, a worn lead-in sentence, a citation
\* marker and a plain sentence.
TextPieces(name) ==
    {<<"[", "a", "]", " ">>,
     <<"M", "e", ":", " ">>,
     NameChars(name) \o <<":", " ">>,
     <<"I", "'", "d", " ", "l", "i", "k", "e", " ", "t", "o", " ", "a", "d", "d", ".", " ">>,
     <<" ", "[", "1", "]">>,
     <<"g", "o", ".">>}

RECURSIVE JoinPieces(_)
JoinPieces(pieces) ==
    IF pieces = <<>> THEN <<>> ELSE Head(pieces) \o JoinPieces(Tail(pieces))

SanitizerTexts(name) ==
    {JoinPieces(ps) : ps \in UNION {[1..n -> TextPieces(name)] : n \in 0..MaxPieces}}

\* A persona of the panel has streamed a text.
InitSanitizer ==
    /\ panel \in Panels
    /\ currentSpeaker \in knownSpeakers(panel)
    /\ settled \in {Returned(text) : text \in SanitizerTexts(currentSpeaker)}
    /\ maxTurns = DEFAULT_MAX_TURNS
    /\ userQuestion = <<>>
    /\ question = <<>>
    /\ transcript = <<>>
    /\ turns = 0
    /\ shouldConclude = FALSE
    /\ lastSpeaker = NULL
    /\ debaterTurns = 0
    /\ decision = NoResult
    /\ participants = <<>>
    /\ pc = "format"
    /\ outcome = Pending
    /\ hookLog = <<>>
    /\ failures = 0
    /\ modReply = NoReply
    /\ NoTransport
    /\ NoPersonaCall
    /\ NoScript

\* formatAgentOutput(agent.name, responseText), the result being the content
\* of the persona's entry.
Format ==
    /\ pc = "format"
    /\ transcript' =
          <<Msg(currentSpeaker, formatAgentOutput(NameChars(currentSpeaker), settled.value))>>
    /\ pc' = "formatted"
    /\ UNCHANGED <<args, transport, personaCall, served, question, turns, shouldConclude, currentSpeaker,
                   lastSpeaker, debaterTurns, decision, participants, outcome, hookLog,
                   failures, settled>>

\* formatAgentOutput applied to the content of the entry it produced.
Reformat ==
    /\ pc = "formatted"
    /\ transcript' =
          Append(transcript,
                 Msg(currentSpeaker,
                     formatAgentOutput(NameChars(currentSpeaker), transcript[1].content)))
    /\ pc' = "reformatted"
    /\ UNCHANGED <<args, transport, personaCall, served, question, turns, shouldConclude, currentSpeaker,
                   lastSpeaker, debaterTurns, decision, participants, outcome, hookLog,
                   failures, settled>>

NextSanitizer == Format \/ Reformat

SpecSanitizer == InitSanitizer /\ [][NextSanitizer]_vars

\* ------------------------------------------------------------------------
\* A lone persona call, fragment by fragment (runSingleTurnForAgent, runJudge)
\* ------------------------------------------------------------------------

\* Full texts a persona's model streams: one with a speaker tag and a
\* citation marker, one with a "Me:" prefix, one with nothing to clean.
StreamedTexts ==
    {<<"[", "A", "]", " ", "o", "k", " ", "[", "1", "]", ".">>,
     <<"M", "e", ":", " ", "o", "k", ".">>,
     <<"o", "k", ".">>}

RECURSIVE SplitAt(_, _)
\* The pieces of `text` cut after the positions `cuts`.
SplitAt(text, cuts) ==
    IF cuts = {} THEN <<text>>
    ELSE LET c == CHOOSE x \in cuts : \A y \in cuts : x <= y
         IN  <<SubSeq(text, 1, c)>>
                \o SplitAt(SubSeq(text, c + 1, Len(text)), {x - c : x \in cuts \ {c}})

\* The ways the backend streams `text`: in at most MaxFragments fragments,
\* none of them empty (processLine passes no empty fragment on).
Fragmentations(text) ==
    {SplitAt(text, cuts) :
        cuts \in {c \in SUBSET (1..(Len(text) - 1)) : Cardinality(c) < MaxFragments}}

\* What emitCleanDelta does: the hook calls it makes and the new value of
\* streamedCleanLength.
Emitted(hooks, length) == [hooks |-> hooks, streamedCleanLength |-> length]

\* Lines 207-216 (and 267-276): the part of the cleaned text not passed on
\* yet goes to the token hook.
emitCleanDelta(hook, agent, should, cleaned, streamed) ==
    LET delta == SubSeq(cleaned, streamed + 1, Len(cleaned))
    IN  IF ~should \/ delta = <<>> THEN Emitted(<<>>, streamed)
        ELSE Emitted(<<HookCall(hook, agent, delta)>>, streamed + Len(delta))

\* Lines 239-241 (and 295-297): the full text is cleaned and what is left of
\* it goes to the token hook, unless the text is an error text.
emitRest(hook, agent, should, responseText, streamed) ==
    emitCleanDelta(hook, agent,
                   should /\ (hook = "onJudgeToken" \/ ~StartsWith(responseText, ERROR_TAG)),
                   cleanSpeakerOutput(responseText), streamed)

\* A persona of the panel is about to be called, on a transcript that holds
\* the question only.
InitPersonaCall ==
    /\ panel \in {p \in Panels : Len(p.debaters) > 0}
    /\ currentSpeaker \in {panel.debaters[1], panel.judge}
    /\ shouldStream \in BOOLEAN
    /\ fragments \in UNION {Fragmentations(text) : text \in StreamedTexts}
    /\ rawResponse = <<>>
    /\ streamedCleanLength = 0
    /\ prompt = NoPrompt
    /\ maxTurns = DEFAULT_MAX_TURNS
    /\ userQuestion = <<"S", "h", "i", "p", "?">>
    /\ question = userQuestion
    /\ transcript = <<Msg("User", question)>>
    /\ turns = 0
    /\ shouldConclude = FALSE
    /\ lastSpeaker = NULL
    /\ debaterTurns = 0
    /\ decision = NoResult
    /\ participants = <<>>
    /\ pc = "persona"
    /\ outcome = Pending
    /\ hookLog = <<>>
    /\ failures = 0
    /\ settled = Unsettled
    /\ modReply = NoReply
    /\ NoTransport
    /\ NoScript

\* What a step of a lone persona call leaves alone.
PersonaCallFrame ==
    UNCHANGED <<args, transport, served, shouldStream, prompt, question, turns, shouldConclude,
                currentSpeaker, lastSpeaker, debaterTurns, decision, participants, failures>>

\* Lines 202-228 of runSingleTurnForAgent: the turn-start hook, the locals
\* of the token handler, and the call is sent.
BeginAgentCall ==
    /\ pc = "persona"
    /\ currentSpeaker # panel.judge
    /\ hookLog' = Append(hookLog, HookCall("onAgentTurnStart", currentSpeaker, <<>>))
    /\ rawResponse' = <<>>
    /\ streamedCleanLength' = 0
    /\ pc' = "streaming"
    /\ UNCHANGED <<fragments, transcript, outcome, settled>>
    /\ PersonaCallFrame

\* Lines 259-288 of runJudge: the same for the judge.
BeginJudgeCall ==
    /\ pc = "persona"
    /\ currentSpeaker = panel.judge
    /\ hookLog' = Append(hookLog, HookCall("onJudgeStart", currentSpeaker, <<>>))
    /\ rawResponse' = <<>>
    /\ streamedCleanLength' = 0
    /\ pc' = "streaming"
    /\ UNCHANGED <<fragments, transcript, outcome, settled>>
    /\ PersonaCallFrame

\* The token hook of the persona that is speaking.
TokenHook == IF currentSpeaker = panel.judge THEN "onJudgeToken" ELSE "onAgentToken"

\* The token handler (lines 218-226, 278-286): the backend streams its next
\* fragment, it is put after the others and the cleaned text is passed on.
OnToken ==
    /\ pc = "streaming"
    /\ fragments # <<>>
    /\ LET raw == rawResponse \o Head(fragments)
           emitted == emitCleanDelta(TokenHook, currentSpeaker, shouldStream,
                                     cleanSpeakerOutput(raw), streamedCleanLength)
       IN  /\ rawResponse' = raw
           /\ hookLog' = hookLog \o emitted.hooks
           /\ streamedCleanLength' = emitted.streamedCleanLength
    /\ fragments' = Tail(fragments)
    /\ UNCHANGED <<pc, transcript, outcome, settled>>
    /\ PersonaCallFrame

\* FinishAgentCall keeping what was streamed before the failure: the entry of
\* a failed turn starts with the partial response.
FinishAgentCall_keepsPartial(stream) ==
    LET effect == runSingleTurnForAgent(currentSpeaker, stream)
        entries == IF stream.ok THEN effect.entries
                   ELSE <<Msg(currentSpeaker, rawResponse \o effect.entries[1].content)>>
    IN  /\ settled' = stream
        /\ hookLog' = hookLog \o effect.hooks
        /\ transcript' = transcript \o entries
        /\ pc' = "settled"
        /\ UNCHANGED <<fragments, rawResponse, streamedCleanLength, outcome>>
        /\ PersonaCallFrame

\* The rest of runSingleTurnForAgent (lines 229-249) for a call that settled
\* as `stream`.
FinishAgentCall(stream) ==
    LET emitted == IF stream.ok
                   THEN emitRest("onAgentToken", currentSpeaker, shouldStream,
                                 responseTextOf(stream), streamedCleanLength)
                   ELSE Emitted(<<>>, streamedCleanLength)
        effect == runSingleTurnForAgent(currentSpeaker, stream)
    IN  /\ settled' = stream
        /\ streamedCleanLength' = emitted.streamedCleanLength
        /\ hookLog' = hookLog \o emitted.hooks \o effect.hooks
        /\ transcript' = transcript \o effect.entries
        /\ pc' = "settled"
        /\ UNCHANGED <<fragments, rawResponse, outcome>>
        /\ PersonaCallFrame

\* The rest of runJudge (lines 289-304) for a call that settled as `stream`.
FinishJudgeCall(stream) ==
    LET emitted == IF stream.ok
                   THEN emitRest("onJudgeToken", currentSpeaker, shouldStream,
                                 stream.value, streamedCleanLength)
                   ELSE Emitted(<<>>, streamedCleanLength)
        effect == runJudge(currentSpeaker, stream)
    IN  /\ settled' = stream
        /\ streamedCleanLength' = emitted.streamedCleanLength
        /\ hookLog' = hookLog \o emitted.hooks \o effect.hooks
        /\ transcript' = transcript \o effect.entries
        /\ pc' = "settled"
        /\ outcome' = IF effect.threw THEN RunThrew(effect.error) ELSE Pending
        /\ UNCHANGED <<fragments, rawResponse>>
        /\ PersonaCallFrame

\* streamOllamaChat returns once the backend has streamed its last fragment:
\* its result is the fragments it passed on, put together (line 138).
AgentCallReturns ==
    /\ pc = "streaming"
    /\ currentSpeaker # panel.judge
    /\ fragments = <<>>
    /\ FinishAgentCall(Returned(rawResponse))

\* streamOllamaChat throws, before the first fragment or after some of them.
AgentCallFails ==
    /\ pc = "streaming"
    /\ currentSpeaker # panel.judge
    /\ \E failure \in StreamFailures : FinishAgentCall(failure)

JudgeCallReturns ==
    /\ pc = "streaming"
    /\ currentSpeaker = panel.judge
    /\ fragments = <<>>
    /\ FinishJudgeCall(Returned(rawResponse))

JudgeCallFails ==
    /\ pc = "streaming"
    /\ currentSpeaker = panel.judge
    /\ \E failure \in StreamFailures : FinishJudgeCall(failure)

NextPersonaCall ==
    \/ BeginAgentCall
    \/ BeginJudgeCall
    \/ OnToken
    \/ AgentCallReturns
    \/ AgentCallFails
    \/ JudgeCallReturns
    \/ JudgeCallFails

SpecPersonaCall == InitPersonaCall /\ [][NextPersonaCall]_vars

\* ------------------------------------------------------------------------
\* What is computed from a transcript: the participants handed to the judge
\* and the prompt of a persona (collectActiveSpeakerNames, buildAgentMessages)
\* ------------------------------------------------------------------------

DEFAULT_TRANSCRIPT_WINDOW == 10

\* Panels of up to MaxPromptDebaters debaters.
PromptPanels ==
    {[debaters |-> SubSeq(DebaterPool, 1, n), judge |-> JudgeName,
      moderator |-> ModeratorName] : n \in 0..MaxPromptDebaters}

\* The speakers of the entries of a transcript: the user, the judge, the
\* debaters of the pool, whether of the panel or not.
TranscriptSpeakers == {"User", JudgeName} \cup Range(DebaterPool)

\* The content of the i-th entry.
EntryContent(i) == <<"t", "u", "r", "n", " ", <<"1", "2", "3", "4", "5", "6">>[i]>>

\* Transcripts of up to MaxEntries entries.
Transcripts ==
    UNION {{[i \in 1..n |-> Msg(s[i], EntryContent(i))] : s \in [1..n -> TranscriptSpeakers]} :
              n \in 0..MaxEntries}

\* transcriptWindow of a persona file: absent, or a positive number.
AgentWindows == {NoWindow, 1, 3}

\* options.transcriptWindow: absent, or a number.
OptionWindows == {NoWindow, 0, 2}

\* Line 90: options?.transcriptWindow ?? DEFAULT_TRANSCRIPT_WINDOW.
transcriptWindowOf(option) == IF option = NoWindow THEN DEFAULT_TRANSCRIPT_WINDOW ELSE option

\* windowSize reading the conversation's window first.
windowSize_conversationFirst(agentWindow, transcriptWindow) ==
    IF transcriptWindow = DEFAULT_TRANSCRIPT_WINDOW /\ agentWindow # NoWindow
    THEN agentWindow ELSE transcriptWindow

\* Line 191: agent.transcriptWindow ?? transcriptWindow.
windowSize(agentWindow, transcriptWindow) ==
    IF agentWindow = NoWindow THEN transcriptWindow ELSE agentWindow

\* Array.prototype.slice(-w) for a number w >= 0: the last w elements, all of
\* them when there are fewer, and all of them when w is 0 (-0 is 0).
SliceLast(messages, w) ==
    IF w = 0 \/ w >= Len(messages) THEN messages
    ELSE SubSeq(messages, Len(messages) - w + 1, Len(messages))

RECURSIVE priorOtherSpeakersFrom(_, _, _, _)
\* The loop of lines 346-360, with priorOtherSpeakers built so far.
priorOtherSpeakersFrom(messages, agent, names, prior) ==
    IF messages = <<>> THEN prior
    ELSE LET s == Head(messages).speaker IN
         IF s \notin names \/ s = agent \/ s \in Range(prior)
         THEN priorOtherSpeakersFrom(Tail(messages), agent, names, prior)
         ELSE priorOtherSpeakersFrom(Tail(messages), agent, names, Append(prior, s))

\* buildAgentMessages counting the persona itself among the others.
buildAgentMessages_withSelf(agent, messages, window, debaters) ==
    LET prior == priorOtherSpeakersFrom(messages, NULL, Range(debaters), <<>>)
    IN  [recent |-> SliceLast(messages, window),
         priorOtherSpeakers |-> prior,
         notYetSpeakers |-> SelectSeq(debaters, LAMBDA name : name \notin Range(prior))]

\* buildAgentMessages, lines 337-362: the excerpt, the other debaters who
\* have spoken and those who have not (debaterNameSet keeps the order of the
\* panel's debaters).
buildAgentMessages(agent, messages, window, debaters) ==
    LET prior == priorOtherSpeakersFrom(messages, agent, Range(debaters), <<>>)
        allOtherDebaters == SelectSeq(debaters, LAMBDA name : name # agent)
    IN  [recent |-> SliceLast(messages, window),
         priorOtherSpeakers |-> prior,
         notYetSpeakers |->
            SelectSeq(allOtherDebaters, LAMBDA name : name \notin Range(prior))]

\* A transcript and a panel, before anything is computed from them.
InitPrompt ==
    /\ panel \in PromptPanels
    /\ transcript \in Transcripts
    /\ prompt = NoPrompt
    /\ shouldStream = FALSE
    /\ fragments = <<>>
    /\ rawResponse = <<>>
    /\ streamedCleanLength = 0
    /\ maxTurns = DEFAULT_MAX_TURNS
    /\ userQuestion = <<>>
    /\ question = <<>>
    /\ turns = 0
    /\ shouldConclude = FALSE
    /\ currentSpeaker = NULL
    /\ lastSpeaker = NULL
    /\ debaterTurns = 0
    /\ decision = NoResult
    /\ participants = <<>>
    /\ pc = "transcript"
    /\ outcome = Pending
    /\ hookLog = <<>>
    /\ failures = 0
    /\ settled = Unsettled
    /\ modReply = NoReply
    /\ NoTransport
    /\ NoScript

\* Line 173: the names of the debaters who spoke are collected.
CollectActiveSpeakers ==
    /\ pc = "transcript"
    /\ participants' = collectActiveSpeakerNames(transcript, panel)
    /\ pc' = "collected"
    /\ UNCHANGED <<args, transport, served, personaCall, question, transcript, turns,
                   shouldConclude, currentSpeaker, lastSpeaker, debaterTurns, decision,
                   outcome, hookLog, failures, settled>>

\* Lines 90 and 191-200: the window is resolved and the prompt of a debater
\* of the panel is built.
BuildAgentMessages ==
    /\ pc = "transcript"
    /\ \E agent \in Range(panel.debaters), agentWindow \in AgentWindows,
          option \in OptionWindows :
          LET size == windowSize(agentWindow, transcriptWindowOf(option))
              built == buildAgentMessages(agent, transcript, size, panel.debaters)
          IN  /\ currentSpeaker' = agent
              /\ prompt' = [agent |-> agent, agentWindow |-> agentWindow,
                            transcriptWindow |-> transcriptWindowOf(option),
                            windowSize |-> size,
                            recent |-> built.recent,
                            priorOtherSpeakers |-> built.priorOtherSpeakers,
                            notYetSpeakers |-> built.notYetSpeakers]
    /\ pc' = "built"
    /\ UNCHANGED <<args, transport, served, shouldStream, fragments, rawResponse,
                   streamedCleanLength, question, transcript, turns, shouldConclude,
                   lastSpeaker, debaterTurns, decision, participants, outcome, hookLog,
                   failures, settled>>

NextPrompt == CollectActiveSpeakers \/ BuildAgentMessages

SpecPrompt == InitPrompt /\ [][NextPrompt]_vars

\* ------------------------------------------------------------------------
\* A lone call of getModeratorDecision, over every reply of the backend
\* ------------------------------------------------------------------------

InitModerator ==
    /\ panel \in Panels
    /\ modReply \in ModeratorReplies(panel)
    /\ maxTurns = DEFAULT_MAX_TURNS
    /\ userQuestion = <<>>
    /\ question = <<>>
    /\ transcript = <<>>
    /\ turns = 0
    /\ shouldConclude = FALSE
    /\ currentSpeaker = NULL
    /\ lastSpeaker = NULL
    /\ debaterTurns = 0
    /\ decision = NoResult
    /\ participants = <<>>
    /\ pc = "moderator"
    /\ outcome = Pending
    /\ hookLog = <<>>
    /\ failures = 0
    /\ settled = Unsettled
    /\ NoTransport
    /\ NoPersonaCall
    /\ NoScript

\* getModeratorDecision runs to its end on the reply modReply.
CallModerator ==
    /\ pc = "moderator"
    /\ decision' = getModeratorDecision(panel, modReply)
    /\ pc' = "moderated"
    /\ UNCHANGED <<args, transport, personaCall, served, locals, participants, outcome, hookLog, failures, settled>>

NextModerator == CallModerator

SpecModerator == InitModerator /\ [][NextModerator]_vars

\* ------------------------------------------------------------------------
\* A lone transport call, buffered or streaming, await by await
\* ------------------------------------------------------------------------

\* The lines a backend streams: objects with a fragment, with an empty
\* fragment, with done, with both; a fragment holding a two-byte character;
\* a blank line, a line that is no JSON, the JSON text null, and the first
\* byte of a character the stream was cut in.
StreamLines ==
    {<<"{", MEMBER_HEL, "}">>,
     <<"{", MEMBER_EMPTY, "}">>,
     <<"{", MEMBER_DONE, "}">>,
     <<"{", MEMBER_LO_DONE, "}">>,
     <<CAFE_OPEN, LEAD_BYTE, CONTINUATION_BYTE, CAFE_CLOSE>>,
     <<" ">>,
     <<"{", "oops">>,
     <<"null">>,
     <<LEAD_BYTE>>}

RECURSIVE JoinLines(_)
\* The lines, each ended by a newline.
JoinLines(lines) ==
    IF lines = <<>> THEN <<>>
    ELSE Head(lines) \o <<"\n">> \o JoinLines(Tail(lines))

\* The response bodies: up to MaxStreamLines lines, the last of them ended
\* by a newline or not.
ByteStreams ==
    LET bodies == {JoinLines(ls) :
                    ls \in UNION {[1..n -> StreamLines] : n \in 0..MaxStreamLines}}
    IN  bodies \cup {SubSeq(b, 1, Len(b) - 1) : b \in bodies \ {<<>>}}

\* What the backend does with a streaming request.
StreamReplies ==
    {StreamReply(k, <<>>) : k \in {"nofetch", "network", "status", "nobody"}}
    \cup {StreamReply("body", b) : b \in ByteStreams}

\* What the backend does with a buffered request; the deadline is a step of
\* the call here.
TransportReplies ==
    {r \in BufferedReplies(DocsOf({JsonNonObject("string")})) : r.kind # "abort"}

\* The texts response.text() gives for the body of an error response.
ErrorBodyTexts == {"model overloaded", "<no body>"}

AbortError == Err("AbortError", <<"This operation was aborted">>)

StatusError(text) == Err("Error", <<"Ollama responded with ", "500", ": ", text>>)

\* The catch block of the call in progress.
transportCatch(error) ==
    IF mode = "buffered" THEN callOllamaChatCatch(error)
    ELSE streamOllamaChatCatch(error)

InitTransport ==
    /\ panel \in {p \in Panels : Len(p.debaters) = 0}
    /\ maxTurns = DEFAULT_MAX_TURNS
    /\ userQuestion = <<>>
    /\ question = <<>>
    /\ transcript = <<>>
    /\ turns = 0
    /\ shouldConclude = FALSE
    /\ currentSpeaker = NULL
    /\ lastSpeaker = NULL
    /\ debaterTurns = 0
    /\ decision = NoResult
    /\ participants = <<>>
    /\ pc = "call"
    /\ outcome = Pending
    /\ hookLog = <<>>
    /\ failures = 0
    /\ settled = Unsettled
    /\ mode \in {"buffered", "streaming"}
    /\ IF mode = "buffered"
       THEN modReply \in TransportReplies /\ streamReply = StreamReply("none", <<>>)
       ELSE modReply = NoReply /\ streamReply \in StreamReplies
    /\ unread = <<>>
    /\ pending = <<>>
    /\ reader = NewStream
    /\ timeout = FALSE
    /\ aborted = FALSE
    /\ NoScript
    /\ NoPersonaCall

\* The call ends: the finally block clears the timer, and the text is
\* returned or the error thrown.
EndCall(result) ==
    /\ settled' = result
    /\ pc' = IF result.ok THEN "returned" ELSE "threw"
    /\ timeout' = FALSE

run == <<panel, maxTurns, userQuestion, locals, decision, participants, outcome,
         hookLog, failures, script, served, personaCall>>

\* Lines 41-47 and 96-103: ensureFetch, the controller, the timer, and the
\* request is sent.
BeginCall ==
    /\ pc = "call"
    /\ IF (IF mode = "buffered" THEN modReply.kind ELSE streamReply.kind) = "nofetch"
       THEN /\ settled' = Thrown(Err("Error",
                    <<"Global fetch is unavailable in this Node.js runtime.">>))
            /\ pc' = "threw"
            /\ UNCHANGED timeout
       ELSE /\ pc' = "fetch"
            /\ timeout' = TRUE
            /\ UNCHANGED settled
    /\ UNCHANGED <<run, modReply, mode, streamReply, unread, pending, reader, aborted>>

\* fetch settles: it rejects, or gives a response whose status and body
\* decide what is awaited next.
FetchSettles ==
    /\ pc = "fetch"
    /\ IF mode = "buffered"
       THEN /\ CASE modReply.kind = "network" ->
                        EndCall(callOllamaChat(modReply))
                 [] modReply.kind = "status" ->
                        pc' = "errorBody" /\ UNCHANGED <<settled, timeout>>
                 [] OTHER ->
                        pc' = "jsonBody" /\ UNCHANGED <<settled, timeout>>
            /\ UNCHANGED unread
       ELSE CASE streamReply.kind = "network" ->
                    /\ EndCall(streamOllamaChatCatch(Err("TypeError", <<"fetch failed">>)))
                    /\ UNCHANGED unread
              [] streamReply.kind = "status" ->
                    pc' = "errorBody" /\ UNCHANGED <<settled, timeout, unread>>
              [] streamReply.kind = "nobody" ->
                    /\ EndCall(streamOllamaChatCatch(
                            Err("Error", <<"Ollama response missing body for streaming.">>)))
                    /\ UNCHANGED unread
              [] OTHER ->
                    /\ pc' = "read"
                    /\ unread' = streamReply.bytes
                    /\ UNCHANGED <<settled, timeout>>
    /\ UNCHANGED <<run, modReply, mode, streamReply, pending, reader, aborted>>

\* Lines 55-56 and 111-112: the body of an error response is read, and the
\* status error thrown.
ErrorBodySettles ==
    /\ pc = "errorBody"
    /\ \E text \in ErrorBodyTexts : EndCall(transportCatch(StatusError(text)))
    /\ UNCHANGED <<run, modReply, mode, streamReply, unread, pending, reader, aborted>>

\* Lines 59-71: the body is read as JSON, and the content returned.
JsonBodySettles ==
    /\ pc = "jsonBody"
    /\ EndCall(callOllamaChat(modReply))
    /\ UNCHANGED <<run, modReply, mode, streamReply, unread, pending, reader, aborted>>

\* Lines 182-185: the loop is left without a throw; the decoder and the
\* buffer are flushed and the reader cancelled.
LeaveLoop(flushed) ==
    /\ reader' = flushed
    /\ pending' = <<>>
    /\ IF flushed.threw
       THEN EndCall(streamOllamaChatCatch(flushed.error))
       ELSE pc' = "cancel" /\ UNCHANGED <<settled, timeout>>

\* Lines 174-179, for the state s the chunk's lines left and the bytes d
\* the decoder holds back.
AfterChunk(s, d) ==
    IF s.threw
    THEN reader' = s /\ pending' = d /\ EndCall(streamOllamaChatCatch(s.error))
    ELSE IF s.finished
    THEN LeaveLoop(readEnd(s, decodeEnd(d)))
    ELSE reader' = s /\ pending' = d /\ pc' = "read" /\ UNCHANGED <<settled, timeout>>

\* reader.read() gives the next bytes of the body, as many as have arrived.
ReadChunk ==
    /\ pc = "read"
    /\ \E k \in 1..Len(unread) :
          /\ unread' = SubSeq(unread, k + 1, Len(unread))
          /\ AfterChunk(readChunk(reader, decodeChunk(pending, SubSeq(unread, 1, k))),
                        decodeChunk(pending, SubSeq(unread, 1, k)).pending)
    /\ UNCHANGED <<run, modReply, mode, streamReply, aborted>>

\* reader.read() reports the end of the body.
ReadDone ==
    /\ pc = "read"
    /\ unread = <<>>
    /\ LeaveLoop(readEnd(reader, decodeEnd(pending)))
    /\ UNCHANGED <<run, modReply, mode, streamReply, unread, aborted>>

\* The end of the call without the completion check: whatever was
\* accumulated is returned.
AfterCancel_unchecked == EndCall(Returned(reader.fullText))

\* Lines 187-192, for a reader cancelled or not.
AfterCancel ==
    IF ~reader.finished
    THEN EndCall(streamOllamaChatCatch(
            Err("Error", <<"Ollama stream ended without a completion signal.">>)))
    ELSE EndCall(Returned(reader.fullText))

\* reader.cancel() settles.
CancelSettles ==
    /\ pc = "cancel"
    /\ AfterCancel
    /\ UNCHANGED <<run, modReply, mode, streamReply, unread, pending, reader, aborted>>

\* The timer fires: the controller aborts, the promise awaited rejects with
\* an AbortError, and the code that awaits it goes on.
DeadlineExpires ==
    /\ timeout
    /\ ~aborted
    /\ aborted' = TRUE
    /\ CASE pc \in {"fetch", "jsonBody", "read"} -> EndCall(transportCatch(AbortError))
         [] pc = "errorBody" -> EndCall(transportCatch(StatusError("<no body>")))
         [] pc = "cancel" -> AfterCancel
    /\ UNCHANGED <<run, modReply, mode, streamReply, unread, pending, reader>>

NextTransport ==
    \/ BeginCall
    \/ FetchSettles
    \/ ErrorBodySettles
    \/ JsonBodySettles
    \/ ReadChunk
    \/ ReadDone
    \/ CancelSettles
    \/ DeadlineExpires

SpecTransport == InitTransport /\ [][NextTransport]_vars

\* ------------------------------------------------------------------------
\* Properties of the decision engine
\* ------------------------------------------------------------------------

\* The transport call of the moderator was made and gave a text back.
ModeratorTextReturned ==
    /\ Len(panel.debaters) > 0
    /\ modReply.kind = "body"
    /\ ~modReply.hasError
    /\ modReply.hasContent
    /\ ~modReply.content.blank

\* The text is not JSON, or its value breaks one of the rules of the schema.
ModeratorTextInvalid ==
    \/ ~modReply.content.parses
    \/ modReply.content.value.type # "object"
    \/ modReply.content.value.nextSpeaker.t # "string"
    \/ modReply.content.value.nextSpeaker.v \notin Range(panel.debaters) \cup {panel.judge}
    \/ modReply.content.value.shouldConclude.t # "boolean"
    \/ modReply.content.value.reason.t \notin {"undefined", "string"}

\* The decision hands over to the judge and concludes.
ForcesJudge ==
    /\ ~decision.threw
    /\ decision.decision.nextSpeaker = panel.judge
    /\ decision.decision.shouldConclude = TRUE
    /\ decision.decision.hasReason

\* C3: when the moderator's call gives back a text that is not parsable JSON,
\* or whose value fails validation, getModeratorDecision returns the judge as
\* next speaker, shouldConclude = true and the reason "Fallback: invalid JSON
\* from moderator".
C3_InvalidOutputForcesJudge ==
    (pc = "moderated" /\ ModeratorTextReturned /\ ModeratorTextInvalid)
        => /\ ForcesJudge
           /\ decision.decision.reason = <<"Fallback: invalid JSON from moderator">>

\* A call that got a JSON object naming a speaker outside the panel, and was
\* answered with the fallback.
C3_Witness ==
    /\ pc = "moderated"
    /\ ModeratorTextReturned
    /\ modReply.content.parses
    /\ modReply.content.value.nextSpeaker = Field("string", "Nobody")
    /\ modReply.content.value.shouldConclude = Field("boolean", "false")
    /\ decision.decision.nextSpeaker = panel.judge
    /\ decision.decision.reason = <<"Fallback: invalid JSON from moderator">>

\* The transport call of the moderator was made and failed.
ModeratorCallFailed ==
    /\ Len(panel.debaters) > 0
    /\ \/ modReply.kind \in {"nofetch", "network", "abort", "status", "badjson"}
       \/ modReply.kind = "body"
            /\ (modReply.hasError \/ ~modReply.hasContent \/ modReply.content.blank)

\* C4: when the moderator's transport call fails, for whatever reason,
\* getModeratorDecision returns the judge as next speaker, shouldConclude =
\* true and a reason that starts with "Fallback: moderator call failed (";
\* it does not throw.
C4_CallFailureForcesJudge ==
    (pc = "moderated" /\ ModeratorCallFailed)
        => /\ ForcesJudge
           /\ Head(decision.decision.reason) = "Fallback: moderator call failed ("

\* A call whose deadline expired, answered with the fallback.
C4_Witness ==
    /\ pc = "moderated"
    /\ modReply.kind = "abort"
    /\ Len(panel.debaters) = 2
    /\ decision.decision.nextSpeaker = panel.judge
    /\ decision.decision.reason =
          <<"Fallback: moderator call failed (", "Ollama request timed out after ",
            "120000", "ms.", ")">>

\* C5: whatever the transport call does, getModeratorDecision returns a
\* decision and does not throw, and the decision's nextSpeaker is one of the
\* panel's debaters or its judge.
C5_AlwaysReturnsAllowedSpeaker ==
    pc = "moderated"
        => /\ ~decision.threw
           /\ decision.decision.nextSpeaker \in Range(panel.debaters) \cup {panel.judge}

\* A call that returned the decision the moderator asked for: a debater,
\* with a reason.
C5_Witness ==
    /\ pc = "moderated"
    /\ ModeratorTextReturned
    /\ ~ModeratorTextInvalid
    /\ decision.called
    /\ decision.decision.nextSpeaker = panel.debaters[Len(panel.debaters)]
    /\ ~decision.decision.shouldConclude
    /\ decision.decision.hasReason


\* ------------------------------------------------------------------------
\* Properties of the run
\* ------------------------------------------------------------------------

\* The positions of the transcript whose speaker is a debater of the panel.
DebaterEntries ==
    {i \in DOMAIN transcript : transcript[i].speaker \in Range(panel.debaters)}

\* runJudge has been entered.
JudgeStarted == \E i \in DOMAIN hookLog : hookLog[i].hook = "onJudgeStart"

\* runConversation has returned or thrown.
RunEnded == pc \in {"done", "failed"}

\* C1: for a panel with at least one debater, the transcript of a run that
\* returned has the user's (trimmed) question as its first entry and the
\* judge's entry, holding the judgment returned, as its last entry.
C1_TranscriptFromUserToJudge ==
    (pc = "done" /\ Len(panel.debaters) >= 1)
        => /\ Len(transcript) >= 2
           /\ transcript[1] = [speaker |-> "User", content |-> Trim(userQuestion)]
           /\ transcript[Len(transcript)] =
                 [speaker |-> panel.judge, content |-> outcome.judgment]

\* A run of two debaters that returned after a debater's call had failed.
C1_Witness ==
    /\ pc = "done"
    /\ Len(panel.debaters) = 2
    /\ failures = 1
    /\ Len(transcript) >= 5
    /\ transcript[Len(transcript)].speaker = panel.judge

\* C2: in every state of a run, whatever the moderator decides and whatever
\* maxTurns is, the debater-turn counter and the number of debater entries of
\* the transcript are at most MAX_DEBATER_TURNS.
C2_DebaterTurnsCapped ==
    /\ debaterTurns <= MAX_DEBATER_TURNS
    /\ Cardinality(DebaterEntries) <= MAX_DEBATER_TURNS

\* The hard cap has handed the run to the judge while the moderator had not
\* concluded and the turn cap was not reached.
C2_Witness ==
    /\ pc = "loop"
    /\ debaterTurns = MAX_DEBATER_TURNS
    /\ Cardinality(DebaterEntries) = MAX_DEBATER_TURNS
    /\ turns < maxTurns
    /\ ~shouldConclude
    /\ currentSpeaker = panel.judge

\* C6: with two or more debaters, when the moderator's decision does not
\* conclude and names the debater who just spoke, the next speaker is another
\* debater; and no two consecutive entries of the transcript are by the same
\* debater.
C6_NoDebaterTwiceInARow ==
    Len(panel.debaters) >= 2
        => /\ (/\ pc = "loop"
               /\ decision.called
               /\ ~decision.decision.shouldConclude
               /\ decision.decision.nextSpeaker = lastSpeaker)
                  => (currentSpeaker \in Range(panel.debaters)
                        /\ currentSpeaker # lastSpeaker)
           /\ \A i \in DebaterEntries :
                 i < Len(transcript) => transcript[i + 1].speaker # transcript[i].speaker

\* The moderator named the debater who just spoke, without concluding, and
\* the other debater is the next speaker.
C6_Witness ==
    /\ pc = "loop"
    /\ Len(panel.debaters) = 2
    /\ decision.called
    /\ ~decision.decision.shouldConclude
    /\ decision.decision.nextSpeaker = lastSpeaker
    /\ lastSpeaker = panel.debaters[2]
    /\ currentSpeaker = panel.debaters[1]
    /\ Len(transcript) = 3

\* A step in which a debater's streaming call settles as a failure.
DebaterCallFails == pc = "turn" /\ pc' # "turn" /\ ~settled'.ok

\* The content of the entry that records the error of a failed call.
ErrorContent(error) == <<"[", "E", "R", "R", "O", "R", "]", " ">> \o error.message

\* C7: when a debater's streaming call fails, exactly one entry is appended,
\* by that debater and with the content "[ERROR] " followed by the error
\* message; the error goes to the turn-error hook; runConversation does not
\* throw, and goes on as after a successful turn: the turn is counted and the
\* cap check or the moderator's decision comes next.
C7_DebaterFailureIsRecorded ==
    [][DebaterCallFails
        => /\ transcript' =
                Append(transcript, [speaker |-> currentSpeaker,
                                    content |-> ErrorContent(settled'.error)])
           /\ Len(hookLog') = Len(hookLog) + 2
           /\ hookLog'[Len(hookLog) + 1] =
                 [hook |-> "onAgentError", agent |-> currentSpeaker,
                  text |-> settled'.error.message]
           /\ outcome' = Pending
           /\ turns' = turns + 1
           /\ debaterTurns' = debaterTurns + 1
           /\ lastSpeaker' = currentSpeaker
           /\ IF debaterTurns' >= MAX_DEBATER_TURNS
              THEN pc' = "loop" /\ currentSpeaker' = panel.judge
              ELSE pc' = "decide" /\ currentSpeaker' = currentSpeaker]_vars

\* A debater's call ran out of time; the entry that says so was appended and
\* the moderator is asked next.
C7_Witness ==
    /\ pc = "decide"
    /\ ~settled.ok
    /\ failures = 1
    /\ outcome = Pending
    /\ Len(transcript) = 3
    /\ transcript[3] =
          [speaker |-> lastSpeaker,
           content |-> <<"[", "E", "R", "R", "O", "R", "]", " ",
                         "Ollama streaming request timed out after ", "120000", "ms.">>]

\* C8: when the judge's streaming call fails, runConversation throws that
\* error: the transcript gets no entry of the judge, no judgment is returned,
\* the judge-error hook is called and the judge-complete hook is not.
C8_JudgeFailureFailsTheRun ==
    (RunEnded /\ JudgeStarted /\ ~settled.ok)
        => /\ pc = "failed"
           /\ outcome = [status |-> "threw", error |-> settled.error, judgment |-> <<>>]
           /\ \A i \in DOMAIN transcript : transcript[i].speaker # panel.judge
           /\ hookLog[Len(hookLog)] =
                 [hook |-> "onJudgeError", agent |-> panel.judge,
                  text |-> settled.error.message]
           /\ \A i \in DOMAIN hookLog : hookLog[i].hook # "onJudgeComplete"

\* The judge's stream ended without its completion signal after two debater
\* turns; the run has thrown.
C8_Witness ==
    /\ pc = "failed"
    /\ JudgeStarted
    /\ Len(transcript) = 3
    /\ outcome.status = "threw"
    /\ outcome.error.message =
          <<"Failed to stream from Ollama: ",
            "Ollama stream ended without a completion signal.">>

\* C9: for a question that is not empty, runConversation throws if and only
\* if the judge's call fails: a failure of a debater's call, a failure of the
\* moderator's call or an invalid answer of the moderator does not make it
\* throw.
C9_OnlyTheJudgeFailsTheRun ==
    /\ (Len(Trim(userQuestion)) > 0 /\ ~RunEnded) => outcome = Pending
    /\ (Len(Trim(userQuestion)) > 0 /\ RunEnded)
          => ((pc = "failed") <=> (JudgeStarted /\ ~settled.ok))

\* A run that returned although its only debater turn failed.
C9_Witness ==
    /\ pc = "done"
    /\ outcome.status = "returned"
    /\ settled.ok
    /\ failures = 1
    /\ maxTurns = DEFAULT_MAX_TURNS
    /\ Len(transcript) = 3
    /\ transcript[2].content[1] = "["

\* C10: every run ends, returning or throwing; a run whose question is not
\* empty does not end before it has reached the judge phase, and when it
\* throws it throws the error of the judge's call, whatever the moderator
\* answers and however its calls fail.  (A run whose question is empty after
\* trimming throws at once, before any call.)
C10_RunTerminates ==
    /\ [](RunEnded =>
            \/ Len(Trim(userQuestion)) = 0
            \/ /\ JudgeStarted
               /\ pc = "failed" => (~settled.ok /\ outcome.error = settled.error))
    /\ <>RunEnded

\* C10 as first stated: every run ends, and none ends before it has reached
\* the judge phase.
C10_EveryRunReachesTheJudge ==
    /\ [](RunEnded => JudgeStarted)
    /\ <>RunEnded

\* The judge phase was reached by the turn cap: the moderator never
\* concluded, and one of the debaters' calls had failed.
C10_Witness ==
    /\ pc = "judge"
    /\ turns = maxTurns
    /\ maxTurns > 1
    /\ maxTurns < MAX_DEBATER_TURNS
    /\ ~shouldConclude
    /\ failures = 1


\* ------------------------------------------------------------------------
\* Properties of the transport
\* ------------------------------------------------------------------------

RECURSIVE Concat(_)
\* The texts of a sequence, one after the other.
Concat(texts) ==
    IF texts = <<>> THEN <<>> ELSE Head(texts) \o Concat(Tail(texts))

\* A streaming call has returned its text.
StreamReturned == mode = "streaming" /\ pc = "returned"

\* C11: at every point of a streaming call the text accumulated so far is
\* the concatenation, in order, of the fragments passed to onToken so far;
\* and the text a call returns is the concatenation of all the fragments it
\* passed on.
C11_FullTextIsTheFragments ==
    /\ reader.fullText = Concat(reader.tokens)
    /\ StreamReturned => settled.value = Concat(reader.tokens)

\* A call that returned "Hello" after passing on "Hel" and then "lo", the
\* latter from the object that carried done.
C11_Witness ==
    /\ StreamReturned
    /\ reader.tokens = <<<<"H", "e", "l">>, <<"l", "o">>>>
    /\ settled.value = <<"H", "e", "l", "l", "o">>

\* The outcome of a streaming call: its text, or the kind of its error.
OutcomeOf(result) ==
    IF result.ok THEN <<"returned", result.value>>
    ELSE <<"threw", result.error.message[2]>>

\* What ends the call once the body was read to its end, or to done.
ResultAfter(s) ==
    IF s.threw THEN streamOllamaChatCatch(s.error)
    ELSE IF ~s.finished
    THEN streamOllamaChatCatch(
            Err("Error", <<"Ollama stream ended without a completion signal.">>))
    ELSE Returned(s.fullText)

\* The locals of a call whose whole body arrives in one read.
ReadWhole(s, d) == IF s.threw THEN s ELSE readEnd(s, decodeEnd(d.pending))

ReadAtOnce(bytes) ==
    ReadWhole(readChunk(NewStream, decodeChunk(<<>>, bytes)), decodeChunk(<<>>, bytes))

\* A streaming call that got a body has ended, and not by its deadline.
BodyCallEnded ==
    /\ mode = "streaming"
    /\ streamReply.kind = "body"
    /\ pc \in {"returned", "threw"}
    /\ ~aborted

\* C12: for a response body, the outcome of streamOllamaChat and the
\* fragments passed to onToken are those of the call that reads the whole
\* body at once, however the bytes are split into reads.
C12_ChunkingDoesNotMatter ==
    BodyCallEnded
        => /\ OutcomeOf(settled) = OutcomeOf(ResultAfter(ReadAtOnce(streamReply.bytes)))
           /\ reader.tokens = ReadAtOnce(streamReply.bytes).tokens

\* Some line of the bytes is an object with done = true.
DoneIn(bytes) == \E i \in DOMAIN bytes : bytes[i] \in {MEMBER_DONE, MEMBER_LO_DONE}

INCOMPLETE_STREAM ==
    <<"Failed to stream from Ollama: ", "Ollama stream ended without a completion signal.">>

InFlight == pc \in {"fetch", "jsonBody", "errorBody", "read"}

\* The messages of the timeout errors of the two calls.
TimeoutMessages ==
    {<<"Ollama request timed out after ", "120000", "ms.">>,
     <<"Ollama streaming request timed out after ", "120000", "ms.">>}

\* C14: when the deadline of a transport call expires while the call awaits
\* the response or bytes of its body, the request is aborted and the call
\* throws a timeout error, returning no text; and no call ends with its
\* timer still armed.
C14_DeadlineEndsTheCall ==
    [][/\ (InFlight /\ ~aborted /\ aborted')
            => /\ pc' = "threw"
               /\ settled'.error.message \in TimeoutMessages
       /\ pc' \in {"returned", "threw"} => ~timeout']_vars

RECURSIVE SplitLines(_)
\* text.split("\n"): the lines of a text, the last of them being what
\* follows the last newline.
SplitLines(text) ==
    IF IndexOfNewline(text) = 0 THEN <<text>>
    ELSE <<SubSeq(text, 1, IndexOfNewline(text) - 1)>>
            \o SplitLines(SubSeq(text, IndexOfNewline(text) + 1, Len(text)))

\* The lines of a response body, trimmed.
BodyLines(bytes) ==
    LET lines == SplitLines(DecodeBytes(bytes, FALSE).text)
    IN  [i \in DOMAIN lines |-> Trim(lines[i])]

\* A line that processLine passes without failing and without finishing:
\* blank, or an object without done.
PassedLine(line) ==
    \/ line = <<>>
    \/ /\ JSONParseLine(line).ok
       /\ JSONParseLine(line).value.type = "object"
       /\ ~JSONParseLine(line).value.done

\* Line i is not blank and not a JSON text, and every line before it is
\* passed: it is read before any object with done=true.
MalformedBeforeDone(lines, i) ==
    /\ lines[i] # <<>>
    /\ ~JSONParseLine(lines[i]).ok
    /\ \A j \in 1..(i - 1) : PassedLine(lines[j])

\* What streamOllamaChat throws for a line that is not a JSON text.
ParseFailure(line) ==
    <<"Failed to stream from Ollama: ", "Failed to parse Ollama stream chunk: ">> \o line

\* C15: a streaming call whose body has a non-blank line that is not a JSON
\* text, read before any object with done=true, and whose deadline did not
\* expire, throws the parse error of that line, whatever was delivered
\* before the line and whatever follows it.
C15_MalformedLineFailsTheCall ==
    (/\ mode = "streaming"
     /\ streamReply.kind = "body"
     /\ pc \in {"returned", "threw"}
     /\ ~aborted)
        => \A i \in DOMAIN BodyLines(streamReply.bytes) :
              MalformedBeforeDone(BodyLines(streamReply.bytes), i)
                 => /\ pc = "threw"
                    /\ settled.error.message = ParseFailure(BodyLines(streamReply.bytes)[i])

\* A call that failed on a malformed line after it had delivered a fragment,
\* with an object carrying done=true after the line.
C15_Witness ==
    /\ mode = "streaming"
    /\ streamReply.kind = "body"
    /\ pc = "threw"
    /\ ~aborted
    /\ Len(BodyLines(streamReply.bytes)) >= 3
    /\ BodyLines(streamReply.bytes)[1] = <<"{", MEMBER_HEL, "}">>
    /\ MalformedBeforeDone(BodyLines(streamReply.bytes), 2)
    /\ BodyLines(streamReply.bytes)[3] = <<"{", MEMBER_DONE, "}">>
    /\ reader.tokens = <<<<"H", "e", "l">>>>
    /\ settled.error.message = ParseFailure(<<"{", "oops">>)

\* C16: a call that returns, returns assistant content: a buffered call a
\* text that is not blank, a streaming call a text that is not empty.  A
\* reply without content is a failure of the call.
C16_NoContentIsAFailure ==
    pc = "returned"
        => IF mode = "buffered"
           THEN ~settled.value.blank
           ELSE settled.value # <<>> /\ reader.tokens # <<>>

\* ------------------------------------------------------------------------
\* Properties of the run under a scripted moderator
\* ------------------------------------------------------------------------

\* The i-th decision getModeratorDecision gives under the script.
ScriptedDecision(i) == getModeratorDecision(panel, script[i]).decision

\* The debater who spoke before the i-th decision was asked for, when every
\* decision before it was followed.
JustSpoke(i) == IF i = 1 THEN panel.debaters[1] ELSE ScriptedDecision(i - 1).nextSpeaker

\* The speakers named by the decisions before the last one.
NamedSpeakers == [i \in 1..(Len(script) - 1) |-> ScriptedDecision(i).nextSpeaker]

\* Every decision but the last does not conclude and names a debater other
\* than the one who just spoke; the last names the judge and concludes.
ScriptHandsOffToJudge ==
    /\ Len(script) >= 1
    /\ \A i \in 1..(Len(script) - 1) :
          /\ ~ScriptedDecision(i).shouldConclude
          /\ ScriptedDecision(i).nextSpeaker \in Range(panel.debaters)
          /\ ScriptedDecision(i).nextSpeaker # JustSpoke(i)
    /\ ScriptedDecision(Len(script)).nextSpeaker = panel.judge
    /\ ScriptedDecision(Len(script)).shouldConclude

Speakers(messages) == [i \in DOMAIN messages |-> messages[i].speaker]

\* C17: with two debaters or more, when the run has returned after asking
\* for each of the decisions d1..dn (so within the caps), d1..d(n-1) not
\* concluding and each naming a debater other than the one who just spoke,
\* dn naming the judge and concluding, the speakers of the transcript are
\* User, the first debater, the speakers named by d1..d(n-1), and the judge.
C17_TranscriptFollowsTheDecisions ==
    (/\ pc = "done"
     /\ Len(panel.debaters) >= 2
     /\ served = Len(script)
     /\ ScriptHandsOffToJudge)
        => Speakers(transcript) =
              <<"User", panel.debaters[1]>> \o NamedSpeakers \o <<panel.judge>>

\* A run of two debaters under three decisions: the second debater, the
\* first again, then the judge.
C17_Witness ==
    /\ pc = "done"
    /\ Len(panel.debaters) = 2
    /\ Len(script) = 3
    /\ served = 3
    /\ ScriptHandsOffToJudge
    /\ Speakers(transcript) =
          <<"User", panel.debaters[1], panel.debaters[2], panel.debaters[1], panel.judge>>

\* The moderator's call fails on the reply.
CallFailure(reply) == ~callOllamaChat(reply).ok

\* The moderator's text is not JSON, or not a decision over the panel.
InvalidPayload(p, reply) ==
    /\ callOllamaChat(reply).ok
    /\ \/ ~JSONParse(callOllamaChat(reply).value).ok
       \/ ~isValidModeratorDecision(JSONParse(callOllamaChat(reply).value).value,
                                    AllowedSet(p))

\* C18: once the decision asked for after the n-th debater turn is a
\* fallback (the call failed or the payload was invalid), no further decision
\* is asked for and no further debater turn occurs; the transcript of the run
\* that returned is the user's entry, n debater entries and the judge's.
C18_FallbackEndsTheDebate ==
    \A n \in 1..served :
        (CallFailure(script[n]) \/ InvalidPayload(panel, script[n]))
            => /\ served = n
               /\ pc \in {"loop", "judge", "done", "failed"}
               /\ DebaterEntries = 2..(n + 1)
               /\ pc = "done"
                    => /\ Len(transcript) = n + 2
                       /\ transcript[1].speaker = "User"
                       /\ transcript[n + 2].speaker = panel.judge

\* A run that returned after the moderator's second call had failed, with a
\* turn cap that allowed a third turn.
C18_Witness ==
    /\ pc = "done"
    /\ served = 2
    /\ Len(script) = 3
    /\ maxTurns > 2
    /\ CallFailure(script[2])
    /\ Len(transcript) = 4
    /\ DebaterEntries = {2, 3}
    /\ transcript[4].speaker = panel.judge

\* ------------------------------------------------------------------------
\* Properties of the judgment
\* ------------------------------------------------------------------------

\* C19: in a run that returned, the judgment returned is the content of the
\* last entry of the transcript, whose speaker is the judge, and the text
\* given to the judge-complete hook: the text the judge's call streamed,
\* cleaned and trimmed.
C19_JudgmentIsTheLastEntry ==
    pc = "done"
        => /\ outcome.status = "returned"
           /\ transcript[Len(transcript)] = Msg(panel.judge, outcome.judgment)
           /\ hookLog[Len(hookLog)] =
                 HookCall("onJudgeComplete", panel.judge, outcome.judgment)
           /\ settled.ok
           /\ outcome.judgment = Trim(cleanSpeakerOutput(settled.value))

\* A run that returned a judgment which cleaning and trimming had changed.
C19_Witness ==
    /\ pc = "done"
    /\ Len(transcript) >= 3
    /\ outcome.judgment # <<>>
    /\ outcome.judgment # settled.value
    /\ outcome.judgment # cleanSpeakerOutput(settled.value)
    /\ transcript[Len(transcript)].content = outcome.judgment

\* ------------------------------------------------------------------------
\* Properties of the sanitizer
\* ------------------------------------------------------------------------

\* C20: formatAgentOutput applied to its own output gives that output: for
\* every persona name and text t,
\* formatAgentOutput(name, formatAgentOutput(name, t)) = formatAgentOutput(name, t).
C20_SanitizerIsIdempotent ==
    pc = "reformatted" => transcript[2].content = transcript[1].content

\* The intermediate results of formatAgentOutput, from the least processed
\* to the most: cleaned, artifactFree, normalized, stripped.
StageResults(nameChars, text) ==
    <<cleanSpeakerOutput(text),
      stripSpeakerArtifacts(cleanSpeakerOutput(text)),
      normalizeSelfReference(nameChars, stripSpeakerArtifacts(cleanSpeakerOutput(text))),
      stripClichedLeadIn(
          normalizeSelfReference(nameChars, stripSpeakerArtifacts(cleanSpeakerOutput(text))))>>

\* The first of the results that is not empty, trimmed; empty if none is.
FirstNonEmpty(results) ==
    IF \A i \in DOMAIN results : results[i] = <<>> THEN <<>>
    ELSE Trim(results[CHOOSE i \in DOMAIN results :
                        results[i] # <<>> /\ \A j \in 1..(i - 1) : results[j] = <<>>])

\* The pipeline leaves nothing of the text.
ReducedToEmpty(results) == TrimStart(results[Len(results)]) = <<>>

\* What formatAgentOutput gives when the pipeline leaves nothing: the least
\* processed of the intermediate results that is not empty.
FallsBackToLeastProcessed(results, content) ==
    ReducedToEmpty(results)
        => /\ content = FirstNonEmpty(results)
           /\ (\E i \in DOMAIN results : results[i] # <<>>) => content # <<>>

\* C21: when the pipeline reduces the text to empty, the content stored is
\* the least processed intermediate result that is not empty; so it is not
\* empty whenever an intermediate result is not empty.
C21_FallsBackToLeastProcessed ==
    pc = "formatted"
        => FallsBackToLeastProcessed(
              StageResults(NameChars(currentSpeaker), settled.value),
              transcript[1].content)

\* ------------------------------------------------------------------------
\* Invariants of the run
\* ------------------------------------------------------------------------

\* Line 89 has run: the transcript exists.
TranscriptCreated == pc # "start" /\ Len(Trim(userQuestion)) > 0

\* The positions of the hook log at which runJudge was entered.
JudgeStarts == {i \in DOMAIN hookLog : hookLog[i].hook = "onJudgeStart"}

\* C22: once created, the transcript is not empty and starts with the user's
\* question; an entry of the judge is the last one, so there is at most one.
\* runJudge is entered at most once, exactly once in a run that went past the
\* loop, and after it no turn is started; inside the loop the judge is never
\* the persona whose turn runs.
C22_JudgeOnceAndLast ==
    /\ TranscriptCreated
          => /\ Len(transcript) >= 1
             /\ transcript[1] = Msg("User", Trim(userQuestion))
             /\ \A i \in DOMAIN transcript :
                   /\ transcript[i].speaker = "User" => i = 1
                   /\ transcript[i].speaker = panel.judge => i = Len(transcript)
    /\ Cardinality(JudgeStarts) <= 1
    /\ (TranscriptCreated /\ pc \in {"judge", "done", "failed"})
          <=> Cardinality(JudgeStarts) = 1
    /\ \A i \in JudgeStarts : \A j \in DOMAIN hookLog :
          j > i => hookLog[j].hook \in {"onJudgeComplete", "onJudgeError"}
    /\ \A i \in DOMAIN hookLog :
          hookLog[i].hook = "onAgentTurnStart" => hookLog[i].agent # panel.judge
    /\ pc = "turn" => currentSpeaker # panel.judge

\* A run of three debater turns, none of which failed, that the judge closed.
C22_Witness ==
    /\ pc = "done"
    /\ failures = 0
    /\ Len(transcript) = 5
    /\ Cardinality(JudgeStarts) = 1
    /\ transcript[5].speaker = panel.judge
    /\ \A i \in 2..4 : transcript[i].speaker \in Range(panel.debaters)

\* The run has thrown the orchestrator's "Unknown persona" error.
UnknownPersonaThrown ==
    /\ outcome.status = "threw"
    /\ Head(outcome.error.message) = "Unknown persona: "

\* C23: once the locals of the run are set, the current speaker is a debater
\* or the judge of the panel, and so is the speaker of every entry of the
\* transcript but the user's; the "Unknown persona" error is never thrown.
C23_SpeakersAreOfThePanel ==
    /\ TranscriptCreated
          => /\ currentSpeaker \in knownSpeakers(panel)
             /\ \A i \in DOMAIN transcript :
                   transcript[i].speaker \in {"User"} \cup knownSpeakers(panel)
    /\ ~UnknownPersonaThrown

\* The moderator's answer after the first turn was not a decision over the
\* panel (a stranger named, or no JSON): the judge is the current speaker.
C23_Witness ==
    /\ pc = "loop"
    /\ decision.called
    /\ decision.decision.reason = REASON_INVALID_JSON
    /\ Len(transcript) = 2
    /\ turns = 1
    /\ turns < maxTurns
    /\ shouldConclude
    /\ currentSpeaker = panel.judge
    /\ transcript[2].speaker \in Range(panel.debaters)

\* The number of calls of the hooks named.
HookCount(hooks) == Cardinality({i \in DOMAIN hookLog : hookLog[i].hook \in hooks})

\* The persona calls started and not settled: turns and judge calls entered
\* less those that completed or failed.
PersonaCallsInFlight ==
    HookCount({"onAgentTurnStart", "onJudgeStart"})
        - HookCount({"onAgentTurnComplete", "onJudgeComplete", "onJudgeError"})

\* C24: at most one backend call is in flight.  A persona's call is in
\* flight exactly while the run awaits a turn or the judge, and none is while
\* it awaits the moderator's decision; and whenever a call is awaited, the
\* entries of all the turns taken so far are in the transcript, the entry of
\* the last speaker at its end when the decision is asked for.
C24_OneCallAtATime ==
    /\ PersonaCallsInFlight \in {0, 1}
    /\ PersonaCallsInFlight = 1 <=> pc \in {"turn", "judge"}
    /\ pc \in {"turn", "decide", "judge"}
          => /\ Len(transcript) = turns + 1
             /\ HookCount({"onAgentTurnComplete"}) = turns
    /\ pc = "decide"
          => /\ PersonaCallsInFlight = 0
             /\ transcript[Len(transcript)].speaker = lastSpeaker

\* The moderator's decision is awaited after the second turn, which failed.
C24_Witness ==
    /\ pc = "decide"
    /\ turns = 2
    /\ failures = 1
    /\ ~settled.ok
    /\ Len(transcript) = 3
    /\ PersonaCallsInFlight = 0
    /\ HookCount({"onAgentTurnStart"}) = 2

\* C25: with a panel of no debaters the first speaker is the judge; no turn
\* is started and no decision asked for, and the transcript of the run that
\* returned is the user's entry followed by the judge's.
C25_NoDebatersGoesToTheJudge ==
    (Len(panel.debaters) = 0 /\ TranscriptCreated)
        => /\ currentSpeaker = panel.judge
           /\ pc \in {"loop", "judge", "done", "failed"}
           /\ turns = 0
           /\ ~decision.called
           /\ HookCount({"onAgentTurnStart", "onAgentTurnComplete", "onAgentError"}) = 0
           /\ pc = "done" => Speakers(transcript) = <<"User", panel.judge>>

\* A run without debaters that returned the judge's text.
C25_Witness ==
    /\ Len(panel.debaters) = 0
    /\ pc = "done"
    /\ maxTurns > 0
    /\ Len(transcript) = 2
    /\ transcript[2] = Msg(panel.judge, outcome.judgment)
    /\ outcome.judgment # <<>>

\* ------------------------------------------------------------------------
\* More properties of getModeratorDecision
\* ------------------------------------------------------------------------

\* C26: for a panel without debaters getModeratorDecision returns the judge,
\* concluding, with the reason that the panel has no debaters, and makes no
\* transport call, whatever the backend would have replied.
C26_NoDebatersNoCall ==
    (pc = "moderated" /\ Len(panel.debaters) = 0)
        => /\ ~decision.called
           /\ ~decision.threw
           /\ decision.decision = Decision(panel.judge, TRUE, TRUE, REASON_NO_DEBATERS)

\* The call returned for a panel without debaters, with a backend that would
\* have named the judge without concluding.
C26_Witness ==
    /\ pc = "moderated"
    /\ Len(panel.debaters) = 0
    /\ modReply.kind = "body"
    /\ modReply.hasContent
    /\ modReply.content.parses
    /\ modReply.content.value.type = "object"
    /\ modReply.content.value.nextSpeaker = Field("string", panel.judge)
    /\ modReply.content.value.shouldConclude = Field("boolean", "false")
    /\ decision.decision.shouldConclude
    /\ decision.decision.reason = REASON_NO_DEBATERS

\* ------------------------------------------------------------------------
\* The decision after each turn
\* ------------------------------------------------------------------------

\* A step that ends a debater's turn.
TurnEnds == pc = "turn" /\ pc' # "turn"

\* C27: the turn on which the debater-turn counter reaches the hard cap is
\* followed by no decision, the judge being made the next speaker; every
\* other turn is followed by the request of one decision.  A decision is
\* asked for only after a turn, and once it has settled the loop goes on: it
\* is not asked for again.
C27_OneDecisionPerTurn ==
    [][/\ TurnEnds
            => IF debaterTurns' >= MAX_DEBATER_TURNS
               THEN /\ pc' = "loop"
                    /\ currentSpeaker' = panel.judge
                    /\ ~decision'.called
               ELSE /\ pc' = "decide"
                    /\ ~decision'.called
                    /\ currentSpeaker' = currentSpeaker
       /\ pc' = "decide" => pc = "turn"
       /\ pc = "decide" => (pc' = "loop" /\ decision'.called /\ turns' = turns)
       /\ (decision'.called /\ decision' # decision) => pc = "decide"]_vars

\* The eighth debater turn, which failed, has ended: the judge is the next
\* speaker and no decision was asked for.
C27_Witness ==
    /\ pc = "loop"
    /\ debaterTurns = MAX_DEBATER_TURNS
    /\ turns = MAX_DEBATER_TURNS
    /\ maxTurns = DEFAULT_MAX_TURNS
    /\ ~settled.ok
    /\ ~decision.called
    /\ currentSpeaker = panel.judge
    /\ lastSpeaker \in Range(panel.debaters)

\* C28: when the decision handed to the orchestrator names a speaker who is
\* neither a debater nor the judge of the panel, the judge is made the next
\* speaker and the debate concludes; no persona outside the panel is given a
\* turn or an entry, and the run does not throw "Unknown persona".
C28_StrangerForcesTheJudge ==
    [][/\ (pc = "decide" /\ decision'.decision.nextSpeaker \notin knownSpeakers(panel))
            => /\ pc' = "loop"
               /\ currentSpeaker' = panel.judge
               /\ shouldConclude'
       /\ pc' = "turn" => currentSpeaker' \in Range(panel.debaters)
       /\ \A i \in DOMAIN transcript' :
             transcript'[i].speaker \in {"User"} \cup knownSpeakers(panel)
       /\ \A i \in DOMAIN hookLog' : hookLog'[i].agent \in knownSpeakers(panel)
       /\ ~UnknownPersonaThrown']_vars

\* The stub named a stranger without concluding after the second turn, and
\* the judge is the next speaker.
C28_Witness ==
    /\ pc = "loop"
    /\ decision.decision.nextSpeaker = "Nobody"
    /\ ~decision.decision.shouldConclude
    /\ ~decision.called
    /\ turns = 2
    /\ turns < maxTurns
    /\ currentSpeaker = panel.judge
    /\ shouldConclude

\* C29: whatever maxTurns is and whatever the decisions are, at most
\* maxTurns turns are taken and at most maxTurns entries are by debaters; and
\* when the turn cap is reached the next step of the run leaves the loop and
\* enters runJudge, concluding decision or not.
C29_TurnCapHandsOffToTheJudge ==
    [][/\ turns' <= maxTurns
       /\ Cardinality(DebaterEntries') <= maxTurns
       /\ HookCount({"onAgentTurnStart"})' <= maxTurns
       /\ (pc = "loop" /\ turns >= maxTurns)
             => /\ pc' = "judge"
                /\ JudgeStarted'
                /\ transcript' = transcript]_vars

\* A run in which the moderator never concluded: the turn cap of three ended
\* the debate and the judge closed the run.
C29_Witness ==
    /\ pc = "done"
    /\ ~shouldConclude
    /\ maxTurns = 3
    /\ turns = 3
    /\ Cardinality(DebaterEntries) = 3
    /\ currentSpeaker \in Range(panel.debaters)
    /\ transcript[Len(transcript)].speaker = panel.judge

\* C30: a debater's turn counts whether its call failed or not: the step
\* that ends it adds one to the turn counter and one to the debater-turn
\* counter and makes the debater the last speaker; a failed call leaves an
\* [ERROR] entry, and the debater entries, [ERROR] entries included, are as
\* many as the debater-turn counter says.
C30_FailedTurnsCount ==
    [][TurnEnds
        => /\ turns' = turns + 1
           /\ debaterTurns' = debaterTurns + 1
           /\ lastSpeaker' = currentSpeaker
           /\ Cardinality(DebaterEntries') = debaterTurns'
           /\ transcript'[Len(transcript')].speaker = currentSpeaker
           /\ ~settled'.ok <=> StartsWith(transcript'[Len(transcript')].content, ERROR_TAG)]_vars

\* The first turn failed: it is counted, its debater is the last speaker and
\* the decision is asked for.
C30_Witness ==
    /\ pc = "decide"
    /\ ~settled.ok
    /\ failures = 1
    /\ turns = 1
    /\ debaterTurns = 1
    /\ lastSpeaker = panel.debaters[1]
    /\ StartsWith(transcript[2].content, ERROR_TAG)

\* ------------------------------------------------------------------------
\* A persona's call, fragment by fragment
\* ------------------------------------------------------------------------

RECURSIVE DeltasOf(_, _)
\* The texts passed to the hook `hook` so far, in order.
DeltasOf(log, hook) ==
    IF log = <<>> THEN <<>>
    ELSE (IF Head(log).hook = hook THEN <<Head(log).text>> ELSE <<>>)
            \o DeltasOf(Tail(log), hook)

\* A debater's turn has ended with a full text, a token hook being given.
StreamedTurnEnded ==
    /\ pc = "settled"
    /\ currentSpeaker # panel.judge
    /\ shouldStream
    /\ settled.ok

\* The text contains a bracketed speaker tag.
HasSpeakerTag(text) ==
    \E i \in DOMAIN text :
        /\ text[i] = "]"
        /\ \E j \in 1..(i - 1) : text[j] = "[" /\ text[j + 1] \notin Digits

\* C31: what the token hook of a debater's turn was given, put together, is
\* cleanSpeakerOutput of the full response, however the backend fragmented
\* it; no delta carries the speaker tag of the response.
C31_DisplayedTextIsTheCleanedText ==
    StreamedTurnEnded
        => /\ Concat(DeltasOf(hookLog, "onAgentToken")) = cleanSpeakerOutput(settled.value)
           /\ \A i \in DOMAIN hookLog :
                 hookLog[i].hook = "onAgentToken" => ~HasSpeakerTag(hookLog[i].text)

\* A persona's call has failed after the token handler was given fragments.
FailedAfterFragments == pc = "settled" /\ ~settled.ok /\ rawResponse # <<>>

\* C32: a call that fails after fragments were streamed leaves nothing of
\* them in the transcript: a debater's turn adds the [ERROR] entry of the
\* failure and nothing else, the judge's call adds nothing.
C32_NoPartialContentInTheTranscript ==
    FailedAfterFragments
        => transcript =
              <<Msg("User", question)>>
                 \o (IF currentSpeaker = panel.judge THEN <<>>
                     ELSE <<Msg(currentSpeaker, ErrorContent(settled.error))>>)

\* A debater's call timed out between two fragments, the first of which the
\* token hook was given.
C32_Witness ==
    /\ FailedAfterFragments
    /\ currentSpeaker # panel.judge
    /\ fragments # <<>>
    /\ DeltasOf(hookLog, "onAgentToken") # <<>>
    /\ settled.error.message[1] = "Ollama streaming request timed out after "
    /\ Len(transcript) = 2

\* The hook calls from position `from` to position `to` are calls of the
\* debater's token hook.
TokenCalls(from, to) ==
    \A i \in from..to :
        /\ hookLog[i].hook = "onAgentToken"
        /\ hookLog[i].agent = currentSpeaker
        /\ hookLog[i].text # <<>>

C33_ValidDecisionIsReturnedUnchanged ==
    (pc = "moderated" /\ ModeratorTextReturned /\ ~ModeratorTextInvalid)
        => /\ decision.called
           /\ ~decision.threw
           /\ decision.decision.nextSpeaker = modReply.content.value.nextSpeaker.v
           /\ decision.decision.shouldConclude
                 = (modReply.content.value.shouldConclude.v = "true")
           /\ decision.decision.reason
                 \notin {REASON_INVALID_JSON, REASON_NO_DEBATERS}
           /\ decision.decision.hasReason
                 => decision.decision.reason = modReply.content.value.reason.v

\* The moderator picked the judge without concluding and gave no reason: the
\* decision returned says the same.
C33_Witness ==
    /\ pc = "moderated"
    /\ ModeratorTextReturned
    /\ modReply.content.parses
    /\ modReply.content.value = JsonObject(Field("string", panel.judge),
                                           Field("boolean", "false"), UndefinedText)
    /\ decision.decision = Decision(panel.judge, FALSE, FALSE, <<>>)

\* ------------------------------------------------------------------------
\* What is computed from a transcript
\* ------------------------------------------------------------------------

\* The position of the first entry of `speaker`.
FirstEntryOf(messages, speaker) ==
    CHOOSE i \in DOMAIN messages :
        /\ messages[i].speaker = speaker
        /\ \A j \in 1..(i - 1) : messages[j].speaker # speaker

\* `names` lists exactly the members of `among` that have an entry in
\* `messages`, each once, in the order of their first entries.
ListsInOrderOfAppearance(names, among, messages) ==
    /\ Range(names) = {name \in among : \E i \in DOMAIN messages : messages[i].speaker = name}
    /\ Cardinality(Range(names)) = Len(names)
    /\ \A i, j \in DOMAIN names :
          i < j => FirstEntryOf(messages, names[i]) < FirstEntryOf(messages, names[j])

\* C34: collectActiveSpeakerNames returns exactly the debaters of the panel
\* that have an entry in the transcript, each once, in the order of their
\* first entries; the user, the judge and speakers that are not debaters of
\* the panel are not among them.
C34_ActiveSpeakersInOrderOfAppearance ==
    pc = "collected"
        => /\ ListsInOrderOfAppearance(participants, Range(panel.debaters), transcript)
           /\ "User" \notin Range(participants)
           /\ panel.judge \notin Range(participants)

\* A transcript in which the second debater speaks first and twice, a
\* speaker who is not of the panel in between, then the first debater.
C34_Witness ==
    /\ pc = "collected"
    /\ Speakers(transcript) = <<"Optimist", "Skeptic", "Optimist", "Analyst">>
    /\ Len(panel.debaters) = 3
    /\ participants = <<"Optimist", "Analyst">>

\* The debaters of the panel other than the persona the prompt is built for.
OtherDebaters == Range(panel.debaters) \ {prompt.agent}

\* C35: in the prompt of a persona the debaters who have already spoken are
\* exactly the other debaters that have an entry in the transcript, in the
\* order of their first entries, and the debaters who have not spoken yet
\* are exactly the other debaters that have none; the two lists share no
\* name, do not name the persona, and together name all the other debaters.
C35_SpokenAndNotYetSpoken ==
    pc = "built"
        => /\ ListsInOrderOfAppearance(prompt.priorOtherSpeakers, OtherDebaters, transcript)
           /\ Range(prompt.notYetSpeakers)
                 = {name \in OtherDebaters :
                        \A i \in DOMAIN transcript : transcript[i].speaker # name}
           /\ Cardinality(Range(prompt.notYetSpeakers)) = Len(prompt.notYetSpeakers)
           /\ Range(prompt.priorOtherSpeakers) \cap Range(prompt.notYetSpeakers) = {}
           /\ prompt.agent \notin Range(prompt.priorOtherSpeakers)
                                     \cup Range(prompt.notYetSpeakers)
           /\ Range(prompt.priorOtherSpeakers) \cup Range(prompt.notYetSpeakers)
                 = OtherDebaters

\* The prompt of the first of three debaters, who spoke between the third
\* and a stranger: the third has spoken, the second has not.
C35_Witness ==
    /\ pc = "built"
    /\ prompt.agent = "Analyst"
    /\ Len(panel.debaters) = 3
    /\ Speakers(transcript) = <<"User", "Critic", "Analyst", "Skeptic">>
    /\ prompt.priorOtherSpeakers = <<"Critic">>
    /\ prompt.notYetSpeakers = <<"Optimist">>

\* The window the prompt was to be built with: the persona's own when it has
\* one, the conversation's otherwise.
EffectiveWindow ==
    IF prompt.agentWindow # NoWindow THEN prompt.agentWindow ELSE prompt.transcriptWindow

\* The smaller of two numbers.
Min(a, b) == IF a <= b THEN a ELSE b

\* C36: the excerpt of a persona's prompt is the last min(w, n) entries of
\* the n entries of the transcript, in order, w being the persona's own
\* transcriptWindow when it has one and the conversation's otherwise, for
\* every w >= 1.
C36_ExcerptIsTheLastEntries ==
    (pc = "built" /\ EffectiveWindow >= 1)
        => LET n == Len(transcript)
               k == Min(EffectiveWindow, n)
           IN  /\ prompt.windowSize = EffectiveWindow
               /\ Len(prompt.recent) = k
               /\ \A i \in 1..k : prompt.recent[i] = transcript[n - k + i]

\* A persona whose own window is 1, in a conversation whose window is 2: the
\* excerpt is the last of the four entries.
C36_Witness ==
    /\ pc = "built"
    /\ prompt.agentWindow = 1
    /\ prompt.transcriptWindow = 2
    /\ Len(transcript) = 4
    /\ prompt.recent = <<transcript[4]>>

\* ------------------------------------------------------------------------
\* When the debate concludes
\* ------------------------------------------------------------------------

\* C37: after a decision the debate concludes exactly when the decision has
\* shouldConclude = true or names the judge; the run leaves the loop for the
\* judge exactly when the debate has concluded, the judge is the current
\* speaker, or the turn cap is reached, and no debater speaks in between.  So
\* a debater named together with shouldConclude = true does not speak, and
\* the judge named with shouldConclude = false concludes the debate.
C37_ConcludesOnTheFlagOrTheJudge ==
    [][/\ (pc = "decide" /\ pc' = "loop")
            => shouldConclude' = (\/ decision'.decision.shouldConclude
                                  \/ decision'.decision.nextSpeaker = panel.judge)
       /\ (pc = "loop" /\ pc' # "loop")
            => /\ pc' = "judge"
                  <=> (shouldConclude \/ currentSpeaker = panel.judge \/ turns >= maxTurns)
               /\ pc' = "judge" => transcript' = transcript
               /\ pc' # "judge" => pc' = "turn" /\ currentSpeaker \in Range(panel.debaters)
       /\ pc' \in {"judge", "done", "failed"} => DebaterEntries' = DebaterEntries]_vars

\* The moderator named the debater who did not just speak and set
\* shouldConclude: the debate has concluded within the turn cap, the debater
\* named has not been given the turn.
C37_Witness ==
    /\ pc = "loop"
    /\ Len(panel.debaters) = 2
    /\ turns = 1
    /\ turns < maxTurns
    /\ decision.decision.nextSpeaker = panel.debaters[2]
    /\ decision.decision.shouldConclude
    /\ currentSpeaker = panel.debaters[2]
    /\ shouldConclude
    /\ Speakers(transcript) = <<"User", panel.debaters[1]>>

\* ------------------------------------------------------------------------
\* The counters of the run
\* ------------------------------------------------------------------------

\* buildModeratorMessages, lines 337-338: the entries whose speaker is a
\* debater of the panel, counted.
debaterTurnCount(messages, p) ==
    Len(SelectSeq(messages, LAMBDA message : message.speaker \in debaterNameSet(p)))

\* C40: at the head of the loop, and when a decision is asked for, the turn
\* counter, the debater-turn counter, the number of entries by debaters (the
\* turns the moderator's prompt reports as used) and the length of the
\* transcript less one are the same number.
C40_CountersAgree ==
    pc \in {"loop", "decide"}
        => /\ turns = debaterTurns
           /\ debaterTurns = debaterTurnCount(transcript, panel)
           /\ debaterTurns = Cardinality(DebaterEntries)
           /\ debaterTurns = Len(transcript) - 1

\* A decision is asked for after three turns, one of which failed.
C40_Witness ==
    /\ pc = "decide"
    /\ turns = 3
    /\ failures = 1
    /\ debaterTurnCount(transcript, panel) = 3
    /\ Len(transcript) = 4

\* ------------------------------------------------------------------------
\* What follows the completion signal
\* ------------------------------------------------------------------------

RECURSIVE FragmentsToDone(_)
\* The fragments of the lines up to the first object with done = true, that
\* object included.
FragmentsToDone(lines) ==
    IF lines = <<>> THEN <<>>
    ELSE IF Head(lines) = <<>> \/ ~JSONParseLine(Head(lines)).ok
    THEN FragmentsToDone(Tail(lines))
    ELSE LET payload == JSONParseLine(Head(lines)).value
             fragment == IF payload.hasContent /\ payload.content # <<>>
                         THEN <<payload.content>> ELSE <<>>
         IN  IF payload.done THEN fragment
             ELSE fragment \o FragmentsToDone(Tail(lines))

\* streamOllamaChat has processed an object with done = true.
DoneProcessed == mode = "streaming" /\ reader.finished

\* C38: once streamOllamaChat has processed an object with done = true, what
\* follows it in the body is discarded: onToken was called for the fragments
\* up to that object and for no other, no error is raised, whatever follows,
\* and no read is issued any more.
C38_NothingAfterDoneCounts ==
    DoneProcessed
        => /\ reader.tokens = FragmentsToDone(BodyLines(streamReply.bytes))
           /\ ~reader.threw
           /\ pc \in {"cancel", "returned"}

====
